---- MODULE Spec2Model ----
(***************************************************************************)
(* Model of railway-terminus: the bearer-token HTTP boundary (server.js),  *)
(* the upstream client's fetchDashboardData and the filter engine          *)
(* (src/query-railway.js).                                                 *)
(*                                                                         *)
(* JavaScript values are modelled as follows.  A string is a TLA+ string   *)
(* (ids, names) or a sequence of characters (the Authorization header,     *)
(* which the code splits); "" and <<>> stand for both the empty string and *)
(* an absent value, which every test in the code (!x, x && ...) treats     *)
(* alike.  A GraphQL connection {edges: [{node}]} is a record              *)
(* [present, hasEdges, edges]: present = FALSE is an absent connection,    *)
(* hasEdges = FALSE a connection object without an edges array; an edge is *)
(* identified with its node.  A thrown TypeError is a result with          *)
(* thrown = TRUE.                                                          *)
(***************************************************************************)
EXTENDS Integers, Sequences, FiniteSets, TLC

VARIABLES
    env,        \* process.env: the configured tokens and ids
    pc,         \* where the request being served is
    handler,    \* the route handler that was entered for the request, "" if none
    req,        \* the request being served
    res,        \* the response sent for it
    filters,    \* the filters the handler read from the request headers
    issued,     \* the upstream queries issued for the request, in order
    locals,     \* fetchDashboardData's local variables
    snapshot,   \* the value fetchDashboardData returned
    fin,        \* a filter function's arguments
    fout,       \* what the filter function returned, or that it threw
    gin,        \* a DashboardGenerator method's arguments
    gout,       \* what the DashboardGenerator method returned, or that it threw
    call,       \* a makeGraphQLRequest call: its arguments, the event met, its promise
    proc        \* the process serving debug requests: console.log and each request

vars ==
    <<env, pc, handler, req, res, filters, issued, locals, snapshot, fin, fout, gin, gout,
      call, proc>>

(***************************************************************************)
(* Bounds.                                                                 *)
(***************************************************************************)
\* largest size (nodes plus empty or edge-less connections) of an input tree
MaxSize == 4
\* longest Authorization header, in characters
MaxHeaderLen == 3
\* most deployments in the deployments slot handed to the flattener
MaxDeployments == 3
\* most entries of an event log handed to the flattener
MaxLogs == 3

\* the longest message body drawn for extractEventAction
MaxMessageLen == 3

\* the longest text drawn for escapeHtml
MaxTextLen == 3

\* the longest errors array of an upstream response
MaxErrors == 2

\* the debug requests a behaviour serves
NumRequests == 2

\* the most queries a diagnostic run awaits
MaxSteps == 2

\* the short fallback.maxLength a configuration is drawn with, beside the shipped one
MaxFallback == 2

(***************************************************************************)
(* Values.                                                                 *)
(***************************************************************************)
ProjectIds == {"p1", "p2"}
ServiceIds == {"s1", "s2"}

NoConn == [present |-> FALSE, hasEdges |-> FALSE, edges |-> <<>>]
NoEdges == [present |-> TRUE, hasEdges |-> FALSE, edges |-> <<>>]
Edges(s) == [present |-> TRUE, hasEdges |-> TRUE, edges |-> s]

\* connection?.edges is truthy
HasEdges(c) == c.present /\ c.hasEdges

NoEnvironment == [present |-> FALSE, id |-> "", name |-> ""]
EnvRef(i, n) == [present |-> TRUE, id |-> i, name |-> n]

NoTeam == [present |-> FALSE, projects |-> NoConn]
Team(c) == [present |-> TRUE, projects |-> c]

NoData == [hasWorkspaces |-> FALSE, workspaces |-> <<>>]
Data(ws) == [hasWorkspaces |-> TRUE, workspaces |-> ws]

NoFilters == [projectId |-> "", serviceId |-> "", environmentId |-> ""]

MapSeq(s, F(_)) == [i \in 1..Len(s) |-> F(s[i])]

SomeSeq(s, P(_)) == \E i \in 1..Len(s) : P(s[i])

\* the sequences of ss joined end to end
RECURSIVE Concat(_)
Concat(ss) == IF ss = <<>> THEN <<>> ELSE Head(ss) \o Concat(Tail(ss))

(***************************************************************************)
(* Results of a call: the returned value, or a thrown TypeError.           *)
(***************************************************************************)
Ok(v) == [thrown |-> FALSE, value |-> v]
Thrown(v) == [thrown |-> TRUE, value |-> v]

AnyThrown(rs) == \E i \in 1..Len(rs) : rs[i].thrown
Values(rs) == [i \in 1..Len(rs) |-> rs[i].value]

\* !projectId && !serviceId && !environmentId
NoFilterGiven(f) == f.projectId = "" /\ f.serviceId = "" /\ f.environmentId = ""

(***************************************************************************)
(* RailwayClient.filterData (query-railway.js 68-156).                     *)
(***************************************************************************)
\* 120-129: the deployment edge survives the environment test
filterData_keepsDeployment(d, f) ==
    ~(f.environmentId # "" /\ d.environment.present /\ d.environment.name # f.environmentId)

\* 118-130
filterData_deployments(c, f) ==
    IF ~c.present THEN Ok(c)
    ELSE IF ~c.hasEdges THEN Thrown(c)
    ELSE Ok([c EXCEPT !.edges = SelectSeq(c.edges, LAMBDA d : filterData_keepsDeployment(d, f))])

\* 103-133
filterData_services(c, f) ==
    IF ~c.present THEN Ok(c)
    ELSE IF ~c.hasEdges THEN Thrown(c)
    ELSE LET kept == SelectSeq(c.edges, LAMBDA s : ~(f.serviceId # "" /\ s.id # f.serviceId))
             rs == MapSeq(kept, LAMBDA s : filterData_deployments(s.deployments, f))
         IN  [thrown |-> AnyThrown(rs),
              value |-> [c EXCEPT !.edges =
                            [i \in 1..Len(kept) |-> [kept[i] EXCEPT !.deployments = rs[i].value]]]]

\* the environment test comparing the name alone
filterData_keepsEnvironment_NameOnly(e, f) ==
    ~(f.environmentId # "" /\ e.name # f.environmentId)

\* 136-145: the environment edge survives the environment test
filterData_keepsEnvironment(e, f) ==
    ~(f.environmentId # "" /\ e.name # f.environmentId /\ e.id # f.environmentId)

\* 134-146
filterData_environments(c, f) ==
    IF ~c.present THEN Ok(c)
    ELSE IF ~c.hasEdges THEN Thrown(c)
    ELSE Ok([c EXCEPT !.edges = SelectSeq(c.edges, LAMBDA e : filterData_keepsEnvironment(e, f))])

\* 99-148
filterData_project(p, f) ==
    LET s == filterData_services(p.services, f)
        e == filterData_environments(p.environments, f)
    IN  [thrown |-> s.thrown \/ e.thrown,
         value |-> [p EXCEPT !.services = s.value, !.environments = e.value]]

\* 90-98: the project edge survives the project test
filterData_keepsProject(p, f) == ~(f.projectId # "" /\ p.id # f.projectId)

\* 84-151
filterData_workspace(w, f) ==
    IF ~w.team.present \/ ~HasEdges(w.team.projects) THEN Thrown(w)
    ELSE LET kept == SelectSeq(w.team.projects.edges, LAMBDA p : filterData_keepsProject(p, f))
             rs == MapSeq(kept, LAMBDA p : filterData_project(p, f))
         IN  [thrown |-> AnyThrown(rs),
              value |-> [w EXCEPT !.team.projects.edges = Values(rs)]]

\* filterData without the early return of lines 76-78
filterData_NoEarlyReturn(data, f) ==
    IF ~data.hasWorkspaces THEN Ok(data)
    ELSE LET rs == MapSeq(data.workspaces, LAMBDA w : filterData_workspace(w, f))
         IN  IF AnyThrown(rs) THEN Thrown(NoData)
             ELSE Ok([data EXCEPT !.workspaces = Values(rs)])

filterData(data, f) ==
    IF ~data.hasWorkspaces THEN Ok(data)
    ELSE IF NoFilterGiven(f) THEN Ok(data)
    ELSE LET rs == MapSeq(data.workspaces, LAMBDA w : filterData_workspace(w, f))
         IN  IF AnyThrown(rs) THEN Thrown(NoData)
             ELSE Ok([data EXCEPT !.workspaces = Values(rs)])

(***************************************************************************)
(* RailwayClient.filterProjectsData (query-railway.js 159-210).            *)
(***************************************************************************)
\* 188-200
filterProjectsData_services(c, f) ==
    IF ~c.present THEN Ok(c)
    ELSE IF ~c.hasEdges THEN Thrown(c)
    ELSE Ok([c EXCEPT !.edges =
                SelectSeq(c.edges, LAMBDA s : ~(f.serviceId # "" /\ s.id # f.serviceId))])

\* the project test with the comparison left out
filterProjectsData_keepsProject_NoTest(p, f) == TRUE

\* 175-183: the project edge survives the project test
filterProjectsData_keepsProject(p, f) == ~(f.projectId # "" /\ p.id # f.projectId)

\* 169-205
filterProjectsData_workspace(w, f) ==
    IF ~w.team.present \/ ~HasEdges(w.team.projects) THEN Thrown(w)
    ELSE LET kept == SelectSeq(w.team.projects.edges,
                               LAMBDA p : filterProjectsData_keepsProject(p, f))
             rs == MapSeq(kept, LAMBDA p : filterProjectsData_services(p.services, f))
         IN  [thrown |-> AnyThrown(rs),
              value |-> [w EXCEPT !.team.projects.edges =
                            [i \in 1..Len(kept) |-> [kept[i] EXCEPT !.services = rs[i].value]]]]

filterProjectsData(data, f) ==
    IF ~data.hasWorkspaces THEN Ok(data)
    ELSE IF f.projectId = "" /\ f.serviceId = "" THEN Ok(data)
    ELSE LET rs == MapSeq(data.workspaces, LAMBDA w : filterProjectsData_workspace(w, f))
         IN  IF AnyThrown(rs) THEN Thrown(NoData)
             ELSE Ok([data EXCEPT !.workspaces = Values(rs)])

(***************************************************************************)
(* RailwayClient.filterDeploymentsData (query-railway.js 212-246).  The    *)
(* data is {deployments: {edges}}: a connection.                          *)
(***************************************************************************)
\* 222-241
filterDeploymentsData_keeps(d, f) ==
    /\ ~(f.projectId # "" /\ d.projectId # f.projectId)
    /\ ~(f.serviceId # "" /\ d.serviceId # f.serviceId)
    /\ ~(f.environmentId # "" /\ d.environmentId # f.environmentId)

filterDeploymentsData(data, f) ==
    IF ~HasEdges(data) THEN Ok(data)
    ELSE IF NoFilterGiven(f) THEN Ok(data)
    ELSE Ok([data EXCEPT !.edges =
                SelectSeq(data.edges, LAMBDA d : filterDeploymentsData_keeps(d, f))])

(***************************************************************************)
(* RailwayClient.filterVolumesData (query-railway.js 248-394).             *)
(***************************************************************************)
\* 254-259
matchesEnvironment(instance, f) ==
    \/ f.environmentId = ""
    \/ instance.environmentId # "" /\ instance.environmentId = f.environmentId
    \/ instance.environment # "" /\ instance.environment = f.environmentId

\* matchesService reading the direct field alone
matchesService_DirectOnly(instance, f) ==
    \/ f.serviceId = ""
    \/ instance.serviceId # "" /\ instance.serviceId = f.serviceId

\* 261-266
matchesService(instance, f) ==
    \/ f.serviceId = ""
    \/ instance.serviceId # "" /\ instance.serviceId = f.serviceId
    \/ instance.service # "" /\ instance.service = f.serviceId

\* 268-278
filterInstanceConnection(c, f) ==
    IF ~HasEdges(c) THEN c
    ELSE [c EXCEPT !.edges =
             SelectSeq(c.edges, LAMBDA i : matchesEnvironment(i, f) /\ matchesService(i, f))]

\* !filteredInstances?.edges || filteredInstances.edges.length === 0
NoInstancesLeft(c) == ~HasEdges(c) \/ Len(c.edges) = 0

\* 293-315
filterVolumesData_volumes(c, f) ==
    IF ~HasEdges(c) THEN c
    ELSE LET mapped == MapSeq(c.edges, LAMBDA v :
                          [v EXCEPT !.volumeInstances = filterInstanceConnection(v.volumeInstances, f)])
         IN  [c EXCEPT !.edges = SelectSeq(mapped, LAMBDA v :
                 ~((f.serviceId # "" \/ f.environmentId # "") /\ NoInstancesLeft(v.volumeInstances)))]

\* 317-349
filterVolumesData_environments(c, f) ==
    IF ~HasEdges(c) THEN c
    ELSE LET kept == SelectSeq(c.edges, LAMBDA e : ~(f.environmentId # "" /\ e.id # f.environmentId))
             mapped == MapSeq(kept, LAMBDA e :
                          IF ~e.volumeInstances.present THEN e
                          ELSE [e EXCEPT !.volumeInstances =
                                   filterInstanceConnection(e.volumeInstances, f)])
         IN  [c EXCEPT !.edges = SelectSeq(mapped, LAMBDA e :
                 ~(e.volumeInstances.present /\ f.serviceId # "" /\ NoInstancesLeft(e.volumeInstances)))]

\* hasVolumeInstances looking under the volumes alone
hasVolumeInstances_VolumesOnly(p) ==
    HasEdges(p.volumes)
    /\ SomeSeq(p.volumes.edges, LAMBDA v : HasEdges(v.volumeInstances) /\ Len(v.volumeInstances.edges) > 0)

\* 359-362
hasVolumeInstances(p) ==
    \/ HasEdges(p.volumes)
       /\ SomeSeq(p.volumes.edges, LAMBDA v : HasEdges(v.volumeInstances) /\ Len(v.volumeInstances.edges) > 0)
    \/ HasEdges(p.environments)
       /\ SomeSeq(p.environments.edges, LAMBDA e : HasEdges(e.volumeInstances) /\ Len(e.volumeInstances.edges) > 0)

\* 284-287: the project edge survives the project test
filterProjectConnection_keepsProject(p, f) == f.projectId = "" \/ p.id = f.projectId

\* 280-368
filterProjectConnection(c, f) ==
    IF ~HasEdges(c) THEN c
    ELSE LET kept == SelectSeq(c.edges, LAMBDA p : filterProjectConnection_keepsProject(p, f))
             mapped == MapSeq(kept, LAMBDA p :
                          [p EXCEPT !.volumes = filterVolumesData_volumes(p.volumes, f),
                                    !.environments = filterVolumesData_environments(p.environments, f)])
         IN  [c EXCEPT !.edges = SelectSeq(mapped, LAMBDA p :
                 ~(f.serviceId # "" \/ f.environmentId # "") \/ hasVolumeInstances(p))]

\* 370-385
filterVolumesData_workspace(w, f) ==
    [w EXCEPT !.projects = IF w.projects.present THEN filterProjectConnection(w.projects, f)
                           ELSE w.projects,
              !.team = IF w.team.present /\ w.team.projects.present
                       THEN [w.team EXCEPT !.projects = filterProjectConnection(w.team.projects, f)]
                       ELSE w.team]

filterVolumesData(data, f) ==
    IF ~data.hasWorkspaces THEN Ok(data)
    ELSE IF NoFilterGiven(f) THEN Ok(data)
    ELSE Ok([data EXCEPT !.workspaces =
                MapSeq(data.workspaces, LAMBDA w : filterVolumesData_workspace(w, f))])

(***************************************************************************)
(* The argument object after a call.  filterData, filterProjectsData and   *)
(* filterDeploymentsData build their result from spread copies and         *)
(* Array.filter / Array.map alone and assign to nothing.                   *)
(* filterVolumesData assigns to projectNode (lines 313 and 347) and to     *)
(* workspaceResult (lines 374 and 378), which are spread copies of the     *)
(* input's project node (291) and workspace (371).                         *)
(***************************************************************************)
\* the input's project node, had projectNode been the node itself and not a copy
projectNode_Alias(p, f) ==
    [p EXCEPT !.volumes = filterVolumesData_volumes(p.volumes, f),
              !.environments = filterVolumesData_environments(p.environments, f)]

\* 291, 313, 347: the input's project node after the assignments to projectNode
projectNode_after(p, f) == p

\* 280-368: the input's project connection after filterProjectConnection
filterProjectConnection_after(c, f) ==
    IF ~HasEdges(c) THEN c
    ELSE [c EXCEPT !.edges =
             [j \in 1..Len(c.edges) |->
                 IF filterProjectConnection_keepsProject(c.edges[j], f)
                 THEN projectNode_after(c.edges[j], f)
                 ELSE c.edges[j]]]

\* 370-385: the input's workspace after the assignments to workspaceResult
filterVolumesData_workspace_after(w, f) ==
    [w EXCEPT !.projects = IF w.projects.present THEN filterProjectConnection_after(w.projects, f)
                           ELSE w.projects,
              !.team = IF w.team.present /\ w.team.projects.present
                       THEN [w.team EXCEPT !.projects =
                                filterProjectConnection_after(w.team.projects, f)]
                       ELSE w.team]

filterVolumesData_after(data, f) ==
    IF ~data.hasWorkspaces \/ NoFilterGiven(f) THEN data
    ELSE [data EXCEPT !.workspaces =
             MapSeq(data.workspaces, LAMBDA w : filterVolumesData_workspace_after(w, f))]

\* 79-155, 165-209, 218-245: no assignment to anything reachable from the argument
filterData_after(data, f) == data
filterProjectsData_after(data, f) == data
filterDeploymentsData_after(data, f) == data

(***************************************************************************)
(* Input trees for the filters, by size.  The size of a tree is the number *)
(* of its nodes plus the number of its connections that are empty or lack  *)
(* an edges array; an absent connection adds nothing.                      *)
(***************************************************************************)
Sizes == 1..MaxSize

\* a table [k \in Sizes |-> ...] with its entries computed once
Table(f) == f @@ f

\* t[n], n \in Sizes: the non-empty sequences over the sized elements bySize whose
\* sizes add up to n
RECURSIVE FillSeqs(_, _, _)
FillSeqs(bySize, t, n) ==
    IF n > MaxSize THEN t
    ELSE FillSeqs(bySize,
                  Append(t, UNION {{<<x>> \o r : x \in bySize[k],
                                                 r \in (IF k = n THEN {<<>>} ELSE t[n - k])} :
                                   k \in 1..n}),
                  n + 1)

SeqsBySize(bySize) == FillSeqs(bySize, <<>>, 1)

\* the connections of size n whose edges are drawn from the table seqs
ConnsOfSize(seqs, n) ==
    IF n = 0 THEN {NoConn}
    ELSE (IF n = 1 THEN {NoEdges, Edges(<<>>)} ELSE {}) \cup {Edges(s) : s \in seqs[n]}

\* the trees whose workspaces are drawn from the table seqs
TreesOver(seqs) == {NoData, Data(<<>>)} \cup UNION {{Data(s) : s \in seqs[n]} : n \in Sizes}

Environments == {EnvRef("e1", "prod"), EnvRef("e2", "stag")}

\* a deployment nested in a service, as filterData reads it: {environment: {id, name}}
NestedDeployments == {[environment |-> r] : r \in {NoEnvironment} \cup Environments}

\* a deployment of the Latest Deployments query, as filterDeploymentsData reads it
FlatDeployment(p, s, e) == [projectId |-> p, serviceId |-> s, environmentId |-> e]

FlatDeployments ==
    {FlatDeployment("p1", "s1", "e1"), FlatDeployment("p2", "s1", "e1"),
     FlatDeployment("p1", "s2", "e1"), FlatDeployment("p1", "s1", "e2")}

\* a volume instance: direct foreign keys (serviceId, environmentId) and the ids of
\* the nested relations (service, environment), each possibly absent
Instance(sid, srel, eid, erel) ==
    [serviceId |-> sid, service |-> srel, environmentId |-> eid, environment |-> erel]

InstanceNodes ==
    {Instance("s1", "", "e1", ""), Instance("", "s1", "", "e1"), Instance("s2", "", "e1", ""),
     Instance("s1", "", "e2", ""), Instance("", "", "", "")}

OnlySize1(S) == [k \in Sizes |-> IF k = 1 THEN S ELSE {}]

NestedDeploymentSeqs == SeqsBySize(OnlySize1(NestedDeployments))

ServicesBySize ==
    Table([k \in Sizes |-> {[id |-> i, deployments |-> c] :
                              i \in ServiceIds, c \in ConnsOfSize(NestedDeploymentSeqs, k - 1)}])

ServiceSeqs == SeqsBySize(ServicesBySize)

EnvironmentNodes ==
    {[id |-> r.id, name |-> r.name, volumeInstances |-> NoConn] : r \in Environments}

EnvironmentSeqs == SeqsBySize(OnlySize1(EnvironmentNodes))

\* projects of the projects/services/environments shape
ProjectsBySize ==
    Table([k \in Sizes |->
             UNION {{[id |-> i, services |-> s, environments |-> e, volumes |-> NoConn] :
                       i \in ProjectIds,
                       s \in ConnsOfSize(ServiceSeqs, a),
                       e \in ConnsOfSize(EnvironmentSeqs, k - 1 - a)} :
                    a \in 0..(k - 1)}])

ProjectSeqs == SeqsBySize(ProjectsBySize)

WorkspacesBySize ==
    Table([k \in Sizes |-> (IF k = 1 THEN {[team |-> NoTeam, projects |-> NoConn]} ELSE {})
                           \cup {[team |-> Team(c), projects |-> NoConn] :
                                    c \in ConnsOfSize(ProjectSeqs, k - 1)}])

\* larger trees of one project: two services with deployments, in two environments
WideProjectTrees ==
    {Data(<<[team |-> Team(Edges(<<
                [id |-> "p1",
                 services |-> Edges(<<[id |-> "s1", deployments |-> Edges(<<d1, d2>>)],
                                      [id |-> "s2", deployments |-> Edges(<<d3>>)]>>),
                 environments |-> Edges(<<[id |-> "e1", name |-> "prod", volumeInstances |-> NoConn],
                                          [id |-> "e2", name |-> "stag", volumeInstances |-> NoConn]>>),
                 volumes |-> NoConn]>>)),
             projects |-> NoConn]>>) :
        d1 \in NestedDeployments, d2 \in NestedDeployments, d3 \in NestedDeployments}

ProjectTrees == TreesOver(SeqsBySize(WorkspacesBySize)) \cup WideProjectTrees

InstanceSeqs == SeqsBySize(OnlySize1(InstanceNodes))

VolumesBySize ==
    Table([k \in Sizes |-> {[id |-> "v1", volumeInstances |-> c] :
                              c \in ConnsOfSize(InstanceSeqs, k - 1)}])

VolumeSeqs == SeqsBySize(VolumesBySize)

VolumeEnvironmentsBySize ==
    Table([k \in Sizes |-> {[id |-> r.id, name |-> r.name, volumeInstances |-> c] :
                              r \in Environments, c \in ConnsOfSize(InstanceSeqs, k - 1)}])

VolumeEnvironmentSeqs == SeqsBySize(VolumeEnvironmentsBySize)

\* projects of the volume-usage shape
VolumeProjectsBySize ==
    Table([k \in Sizes |->
             UNION {{[id |-> i, services |-> NoConn, environments |-> e, volumes |-> v] :
                       i \in ProjectIds,
                       v \in ConnsOfSize(VolumeSeqs, a),
                       e \in ConnsOfSize(VolumeEnvironmentSeqs, k - 1 - a)} :
                    a \in 0..(k - 1)}])

VolumeProjectSeqs == SeqsBySize(VolumeProjectsBySize)

\* a workspace of the volume-usage shape carries its projects directly, under team, or both
VolumeWorkspacesBySize ==
    Table([k \in Sizes |->
             UNION {{[team |-> t, projects |-> c] :
                       t \in {NoTeam} \cup {Team(d) : d \in ConnsOfSize(VolumeProjectSeqs, a)},
                       c \in ConnsOfSize(VolumeProjectSeqs, k - 1 - a)} :
                    a \in 0..(k - 1)}])

\* larger trees of one project: two environments and possibly a volume, each with one
\* volume instance
WideVolumeTrees ==
    {Data(<<[team |-> Team(Edges(<<
                [id |-> "p1",
                 services |-> NoConn,
                 environments |-> Edges(<<[id |-> "e1", name |-> "prod", volumeInstances |-> Edges(<<i1>>)],
                                          [id |-> "e2", name |-> "stag", volumeInstances |-> Edges(<<i2>>)]>>),
                 volumes |-> v]>>)),
             projects |-> NoConn]>>) :
        i1 \in InstanceNodes, i2 \in InstanceNodes,
        v \in {NoConn} \cup {Edges(<<[id |-> "v1", volumeInstances |-> Edges(<<i3>>)]>>) :
                                i3 \in InstanceNodes}}

VolumeTrees == TreesOver(SeqsBySize(VolumeWorkspacesBySize)) \cup WideVolumeTrees

DeploymentLists ==
    {NoConn} \cup UNION {ConnsOfSize(SeqsBySize(OnlySize1(FlatDeployments)), n) : n \in Sizes}

FilterValues ==
    [projectId : {"", "p1"}, serviceId : {"", "s1"}, environmentId : {"", "e1", "prod"}]

(***************************************************************************)
(* The values of the server's state before anything has happened.          *)
(***************************************************************************)
NoEnv ==
    [TERMINUS_AUTH_TOKEN |-> <<>>, RAILWAY_TOKEN |-> "", TERMINUS_LOGS_ENV_ID |-> "",
     RAILWAY_ENVIRONMENT_ID |-> ""]

NoRequest ==
    [route |-> "", authorization |-> <<>>, logsEnvironmentId |-> "", terminusLogsEnvId |-> "",
     projectId |-> "", serviceId |-> "", environmentId |-> ""]

\* makeGraphQLRequest not called
NoCall == [fn |-> "none"]

\* no debug request served
NoProcess == [console |-> 0]

\* no DashboardGenerator method called
NoArguments == [fn |-> "none"]
NoReturn == [fn |-> "none", thrown |-> FALSE]

\* no response sent
NoResponse == [status |-> 0, body |-> "none"]

NoEventLogs == [present |-> FALSE, environmentLogs |-> <<>>]
EventLogs(s) == [present |-> TRUE, environmentLogs |-> s]

NoLocals ==
    [terminusLogsEnvId |-> "", projectsData |-> NoData, deploymentsData |-> NoConn,
     volumeData |-> NoData, eventLogsData |-> NoEventLogs, queryErrors |-> <<>>,
     eventLogsQueryUsed |-> "none", failed |-> {}, pending |-> <<>>]

NoSnapshotData ==
    [projects |-> NoData, deployments |-> NoConn, volumes |-> NoData, eventLogs |-> NoEventLogs,
     eventLogsEnvironmentId |-> "", queryInfo |-> [errors |-> <<>>, eventLogsQueryUsed |-> "none"]]

NoError == [message |-> "", type |-> ""]

\* fetchDashboardData has not returned
NoSnapshot ==
    [returned |-> FALSE, success |-> FALSE, hasData |-> FALSE, data |-> NoSnapshotData,
     hasError |-> FALSE, error |-> NoError]

(***************************************************************************)
(* The filter functions applied to the input trees.  fin.filters is drawn  *)
(* at the start; a call draws the tree, and records it with its result.    *)
(***************************************************************************)
NotCalled == [fn |-> "none", thrown |-> FALSE, value |-> NoData, input |-> NoData]

\* what a call left: its result or exception, and its argument object as it is afterwards
Returned(name, r, after) == [fn |-> name, thrown |-> r.thrown, value |-> r.value, input |-> after]

FilterUnchanged ==
    UNCHANGED <<env, pc, handler, req, res, filters, issued, locals, snapshot, gin, gout,
                call, proc>>

Call_filterData ==
    /\ fout.fn = "none"
    /\ \E d \in ProjectTrees :
          /\ fin' = [fin EXCEPT !.data = d]
          /\ fout' = Returned("filterData", filterData(d, fin.filters),
                                  filterData_after(d, fin.filters))
    /\ FilterUnchanged

Call_filterProjectsData ==
    /\ fout.fn = "none"
    /\ \E d \in ProjectTrees :
          /\ fin' = [fin EXCEPT !.data = d]
          /\ fout' = Returned("filterProjectsData", filterProjectsData(d, fin.filters),
                                  filterProjectsData_after(d, fin.filters))
    /\ FilterUnchanged

Call_filterDeploymentsData ==
    /\ fout.fn = "none"
    /\ \E d \in DeploymentLists :
          /\ fin' = [fin EXCEPT !.data = d]
          /\ fout' = Returned("filterDeploymentsData", filterDeploymentsData(d, fin.filters),
                                  filterDeploymentsData_after(d, fin.filters))
    /\ FilterUnchanged

Call_filterVolumesData ==
    /\ fout.fn = "none"
    /\ \E d \in VolumeTrees :
          /\ fin' = [fin EXCEPT !.data = d]
          /\ fout' = Returned("filterVolumesData", filterVolumesData(d, fin.filters),
                                  filterVolumesData_after(d, fin.filters))
    /\ FilterUnchanged

InitFilter ==
    /\ \E f \in FilterValues : fin = [data |-> NoData, filters |-> f]
    /\ fout = NotCalled
    /\ env = NoEnv /\ pc = "idle" /\ handler = "" /\ req = NoRequest /\ res = NoResponse
    /\ filters = NoFilters /\ issued = <<>> /\ locals = NoLocals /\ snapshot = NoSnapshot
    /\ gin = NoArguments /\ gout = NoReturn
    /\ call = NoCall /\ proc = NoProcess

NextFilter ==
    \/ Call_filterData
    \/ Call_filterProjectsData
    \/ Call_filterDeploymentsData
    \/ Call_filterVolumesData

SpecFilter == InitFilter /\ [][NextFilter]_vars

(***************************************************************************)
(* server.js: the requests and the environment.                            *)
(***************************************************************************)
Chars == {" ", "a", "b"}

\* the Authorization header: absent (<<>>), or a string of at most MaxHeaderLen characters
AuthorizationHeaders == UNION {[1..n -> Chars] : n \in 0..MaxHeaderLen}

Routes == {"/health", "/", "/api/data", "/debug", "/debug/advanced", "/other"}

\* the filter headers x-project-id, x-service-id, x-environment-id of a request
RequestFilters ==
    {NoFilters,
     [projectId |-> "p1", serviceId |-> "", environmentId |-> ""],
     [projectId |-> "", serviceId |-> "s1", environmentId |-> "e1"]}

Requests ==
    {[route |-> r, authorization |-> a, logsEnvironmentId |-> l, terminusLogsEnvId |-> t,
      projectId |-> f.projectId, serviceId |-> f.serviceId, environmentId |-> f.environmentId] :
        r \in Routes, a \in AuthorizationHeaders, l \in {"", "e1"}, t \in {"", "e2"},
        f \in RequestFilters}

Environment ==
    [TERMINUS_AUTH_TOKEN : {<<>>, <<"a">>, <<"a", "b">>},
     RAILWAY_TOKEN : {"", "rw"},
     TERMINUS_LOGS_ENV_ID : {"", "e3"},
     RAILWAY_ENVIRONMENT_ID : {"", "e1"}]

\* String.prototype.split(' ')
RECURSIVE split(_)
split(s) ==
    IF \A i \in 1..Len(s) : s[i] # " " THEN <<s>>
    ELSE LET k == CHOOSE i \in 1..Len(s) : s[i] = " " /\ \A j \in 1..(i - 1) : s[j] # " "
         IN  <<SubSeq(s, 1, k - 1)>> \o split(SubSeq(s, k + 1, Len(s)))

\* authHeader && authHeader.split(' ')[1]; <<>> when that is undefined or empty
token(authHeader) ==
    IF authHeader = <<>> THEN <<>>
    ELSE IF Len(split(authHeader)) >= 2 THEN split(authHeader)[2]
    ELSE <<>>

\* the comparison of the tokens taken for passed whenever a token is carried
tokenDiffers_Never(t, expectedToken) == FALSE

\* token !== expectedToken
tokenDiffers(t, expectedToken) == t # expectedToken

\* authenticateToken with the test of the configured token ahead of the test of the
\* request's token
authenticateToken_ConfigFirst(r) ==
    IF env.TERMINUS_AUTH_TOKEN = <<>> THEN 500
    ELSE IF token(r.authorization) = <<>> THEN 401
    ELSE IF tokenDiffers(token(r.authorization), env.TERMINUS_AUTH_TOKEN) THEN 403
    ELSE 0

\* the status authenticateToken answers with, 0 when it calls next()
authenticateToken(r) ==
    IF token(r.authorization) = <<>> THEN 401
    ELSE IF env.TERMINUS_AUTH_TOKEN = <<>> THEN 500
    ELSE IF tokenDiffers(token(r.authorization), env.TERMINUS_AUTH_TOKEN) THEN 403
    ELSE 0

AuthBody(status) ==
    CASE status = 401 -> "access-token-required"
      [] status = 500 -> "server-configuration-error"
      [] OTHER -> "invalid-token"

(***************************************************************************)
(* What the upstream API answers a query with, when the query succeeds.    *)
(***************************************************************************)
ResponseProject(i) ==
    [id |-> i, name |-> <<"p">>,
     services |-> Edges(<<[id |-> "s1", name |-> <<"w", "e", "b">>, deployments |-> NoConn],
                          [id |-> "s2", name |-> <<"d", "b">>, deployments |-> NoConn]>>),
     environments |-> Edges(<<[id |-> "e1", name |-> <<"p", "r", "o", "d">>,
                               volumeInstances |-> NoConn]>>),
     volumes |-> NoConn]

\* one workspace with two projects under team; one workspace without team
ProjectsResponses ==
    {Data(<<[name |-> <<"w">>, projects |-> NoConn,
             team |-> Team(Edges(<<ResponseProject("p1"), ResponseProject("p2")>>))]>>),
     Data(<<[name |-> <<"w">>, team |-> NoTeam, projects |-> NoConn]>>)}

DeploymentsResponses ==
    {Edges(<<FlatDeployment("p1", "s1", "e1"), FlatDeployment("p2", "s2", "e2")>>)}

VolumesResponses ==
    {Data(<<[name |-> <<"w">>, team |-> NoTeam,
             projects |-> Edges(<<[id |-> "p1", services |-> NoConn, environments |-> NoConn,
                                   volumes |-> Edges(<<[id |-> "v1", volumeInstances |->
                                       Edges(<<Instance("s1", "", "e1", "")>>)]>>)]>>)]>>)}

\* a log entry with a message, and one whose message is null
EventLogsResponses ==
    {EventLogs(<<[timestamp |-> 1, message |-> [present |-> TRUE, text |-> <<"x">>],
                  severity |-> <<"i">>]>>),
     EventLogs(<<[timestamp |-> 1, message |-> [present |-> FALSE, text |-> <<>>],
                  severity |-> <<"i">>]>>)}

\* a query's outcome: it succeeds with a response, or it fails (data is then not read)
Outcomes(responses) == {[ok |-> b, data |-> d] : b \in BOOLEAN, d \in responses}

(***************************************************************************)
(* RailwayClient.fetchDashboardData (query-railway.js 396-523).  locals    *)
(* holds its local variables; locals.failed records, for the claims, which *)
(* queries failed.                                                         *)
(***************************************************************************)
\* 428-436
projectsSettled(l, o) ==
    IF o.ok THEN [l EXCEPT !.projectsData = o.data]
    ELSE [l EXCEPT !.projectsData = Data(<<>>),
                   !.queryErrors = Append(@, "Projects query failed"),
                   !.failed = @ \cup {"projects"}]

\* 438-446
deploymentsSettled(l, o) ==
    IF o.ok THEN [l EXCEPT !.deploymentsData = o.data]
    ELSE [l EXCEPT !.deploymentsData = Edges(<<>>),
                   !.queryErrors = Append(@, "Deployments query failed"),
                   !.failed = @ \cup {"deployments"}]

\* 448-456
volumesSettled(l, o) ==
    IF o.ok THEN [l EXCEPT !.volumeData = o.data]
    ELSE [l EXCEPT !.volumeData = Data(<<>>),
                   !.queryErrors = Append(@, "Volumes query failed"),
                   !.failed = @ \cup {"volumes"}]

\* 463-475
eventLogsSettled(l, o) ==
    IF o.ok THEN [l EXCEPT !.eventLogsData = o.data, !.eventLogsQueryUsed = "full"]
    ELSE [l EXCEPT !.eventLogsData = EventLogs(<<>>), !.eventLogsQueryUsed = "empty",
                   !.failed = @ \cup {"eventLogs"}]

\* 476-480
eventLogsSkipped(l) ==
    [l EXCEPT !.eventLogsData = EventLogs(<<>>), !.eventLogsQueryUsed = "skipped"]

\* the snapshot of the catch block, with a data member left in
failureSnapshot_WithData ==
    [returned |-> TRUE, success |-> FALSE, hasData |-> TRUE, data |-> NoSnapshotData,
     hasError |-> TRUE, error |-> [message |-> "TypeError", type |-> "API_ERROR"]]

\* 510-521: the snapshot of the catch block
failureSnapshot ==
    [returned |-> TRUE, success |-> FALSE, hasData |-> FALSE, data |-> NoSnapshotData,
     hasError |-> TRUE, error |-> [message |-> "TypeError", type |-> "API_ERROR"]]

\* 482-508: the filters applied and the snapshot built; 510-521 when a filter throws
dashboardData(l, f) ==
    LET p == filterProjectsData(l.projectsData, f)
        d == filterDeploymentsData(l.deploymentsData, f)
        v == filterVolumesData(l.volumeData, f)
    IN  IF p.thrown \/ d.thrown \/ v.thrown THEN failureSnapshot
        ELSE [returned |-> TRUE, success |-> TRUE, hasData |-> TRUE,
              data |-> [projects |-> p.value, deployments |-> d.value, volumes |-> v.value,
                        eventLogs |-> l.eventLogsData,
                        eventLogsEnvironmentId |-> l.terminusLogsEnvId,
                        queryInfo |-> [errors |-> l.queryErrors,
                                       eventLogsQueryUsed |-> l.eventLogsQueryUsed]],
              hasError |-> FALSE, error |-> NoError]

(***************************************************************************)
(* DashboardGenerator.extractComprehensiveData (generate-html.js 101-264). *)
(* A createdAt or timestamp is the instant new Date() parses it to, a      *)
(* positive integer, or 0 when it does not parse (Invalid Date).  The      *)
(* deployments slot is modelled by its shape, {me: {workspaces}} (the one  *)
(* the lookup is built from) or {deployments: {edges}}, and by the         *)
(* deployments in it in the order the nested loops of 117-139 meet them,   *)
(* each with the id of the service it is nested in.                        *)
(***************************************************************************)
DeploymentsSlot(shape, ds) == [shape |-> shape, entries |-> ds]

\* `${service.id}-${deployment.environmentId}`: the ids are UUIDs, of one length, so the
\* string determines the pair
Key(serviceId, environmentId) == <<serviceId, "-", environmentId>>

EmptyMap == [k \in {} |-> 0]

\* new Date(a) > new Date(b), read with the newer instant losing
newer_Reversed(a, b) == a # 0 /\ b # 0 /\ a < b

\* new Date(a) > new Date(b): false when either is an Invalid Date
newer(a, b) == a # 0 /\ b # 0 /\ a > b

\* 124-129: the loop body, over the deployments met
RECURSIVE deploymentMap_set(_, _)
deploymentMap_set(map, ds) ==
    IF ds = <<>> THEN map
    ELSE LET d == Head(ds)
             key == Key(d.serviceId, d.environmentId)
         IN  deploymentMap_set(
                 IF key \notin DOMAIN map \/ newer(d.createdAt, map[key].createdAt)
                 THEN (key :> d) @@ map ELSE map,
                 Tail(ds))

\* 115-140
deploymentMap(data) ==
    IF data.deployments.shape = "me" THEN deploymentMap_set(EmptyMap, data.deployments.entries)
    ELSE EmptyMap

\* 176-189: the deployments of a service, one for each environment of the project with
\* an entry in the lookup
serviceData_deployments(service, project, map) ==
    IF ~HasEdges(project.environments) THEN <<>>
    ELSE LET found == SelectSeq(project.environments.edges,
                                LAMBDA e : Key(service.id, e.id) \in DOMAIN map)
         IN  [j \in 1..Len(found) |->
                 [deployment |-> map[Key(service.id, found[j].id)],
                  environmentName |-> found[j].name,
                  environmentId |-> found[j].id]]

\* 153-207
projectData(project, map) ==
    [id |-> project.id,
     name |-> project.name,
     services |->
        IF ~HasEdges(project.services) THEN <<>>
        ELSE MapSeq(project.services.edges, LAMBDA sv :
                 [id |-> sv.id, name |-> sv.name,
                  deployments |-> serviceData_deployments(sv, project, map)]),
     environments |->
        IF ~HasEdges(project.environments) THEN <<>>
        ELSE MapSeq(project.environments.edges, LAMBDA e : [id |-> e.id, name |-> e.name])]

\* 143-212
workspaceData(w, map) ==
    [name |-> w.name,
     projects |-> IF w.team.present /\ HasEdges(w.team.projects)
                  THEN MapSeq(w.team.projects.edges, LAMBDA pr : projectData(pr, map))
                  ELSE <<>>]

UnknownService ==
    <<"U", "n", "k", "n", "o", "w", "n", " ", "S", "e", "r", "v", "i", "c", "e">>

\* 215-246: one row for each volume instance listed under an environment of a project
\* under team; an instance is [service |-> [present, name], mountPath]
volumeRows(data) ==
    IF ~data.volumes.hasWorkspaces THEN <<>>
    ELSE Concat(MapSeq(data.volumes.workspaces, LAMBDA w :
            IF ~(w.team.present /\ HasEdges(w.team.projects)) THEN <<>>
            ELSE Concat(MapSeq(w.team.projects.edges, LAMBDA pr :
                    IF ~HasEdges(pr.environments) THEN <<>>
                    ELSE Concat(MapSeq(pr.environments.edges, LAMBDA e :
                            IF ~HasEdges(e.volumeInstances) THEN <<>>
                            ELSE MapSeq(e.volumeInstances.edges, LAMBDA i :
                                     [mountPath |-> i.mountPath,
                                      serviceName |->
                                          IF i.service.present /\ i.service.name # <<>>
                                          THEN i.service.name ELSE UnknownService,
                                      environmentName |-> e.name])))))))

\* the largest instant of the entries of logs
MaxInstant(logs) ==
    IF logs = <<>> THEN 0
    ELSE CHOOSE t \in {logs[j].timestamp : j \in 1..Len(logs)} :
            \A j \in 1..Len(logs) : logs[j].timestamp <= t

\* Array.prototype.sort with (a, b) => new Date(a.timestamp) - new Date(b.timestamp):
\* oldest first
sortOldestFirst(logs) ==
    Concat([k \in 1..MaxInstant(logs) |-> SelectSeq(logs, LAMBDA l : l.timestamp = k)])

\* 259: Array.prototype.sort with (a, b) => new Date(b.timestamp) - new Date(a.timestamp),
\* a stable sort, on entries whose timestamps parse
sortNewestFirst(logs) ==
    Concat([k \in 1..MaxInstant(logs) |->
               SelectSeq(logs, LAMBDA l : l.timestamp = MaxInstant(logs) + 1 - k)])

\* 251-260
eventLogsOf(data) ==
    IF ~data.eventLogs.present THEN <<>>
    ELSE sortNewestFirst(MapSeq(data.eventLogs.environmentLogs, LAMBDA log :
             [timestamp |-> log.timestamp, message |-> log.message, severity |-> log.severity]))

\* 110-112
hasFilters(data) == ~NoFilterGiven(data.queryInfo.filters)

extractComprehensiveData(data) ==
    IF ~data.success
    THEN [workspaces |-> <<>>, volumes |-> <<>>, eventLogs |-> <<>>, hasFilters |-> FALSE]
    ELSE [workspaces |-> IF data.projects.hasWorkspaces
                         THEN MapSeq(data.projects.workspaces,
                                     LAMBDA w : workspaceData(w, deploymentMap(data)))
                         ELSE <<>>,
          volumes |-> volumeRows(data),
          eventLogs |-> eventLogsOf(data),
          hasFilters |-> hasFilters(data)]

(***************************************************************************)
(* DashboardGenerator.generateComprehensiveHTML (generate-html.js          *)
(* 329-673): the rows of the Services section.                             *)
(***************************************************************************)
NoDeployment == [serviceId |-> "", environmentId |-> "", createdAt |-> 0]

NotAvailable == <<"N", "/", "A">>

\* the rows without the row of a service that has no deployment
serviceRows_NoPlaceholder(project, service) ==
    MapSeq(service.deployments, LAMBDA d :
        [projectName |-> project.name, serviceName |-> service.name,
         hasDeployment |-> TRUE, deployment |-> d.deployment,
         environmentName |-> d.environmentName])

\* 355-376: the rows of one service
serviceRows(project, service) ==
    IF Len(service.deployments) > 0
    THEN MapSeq(service.deployments, LAMBDA d :
             [projectName |-> project.name, serviceName |-> service.name,
              hasDeployment |-> TRUE, deployment |-> d.deployment,
              environmentName |-> d.environmentName])
    ELSE <<[projectName |-> project.name, serviceName |-> service.name,
            hasDeployment |-> FALSE, deployment |-> NoDeployment,
            environmentName |-> NotAvailable]>>

\* 351-379
allServices(workspaces) ==
    Concat(MapSeq(workspaces, LAMBDA w :
        Concat(MapSeq(w.projects, LAMBDA pr :
            Concat(MapSeq(pr.services, LAMBDA sv : serviceRows(pr, sv)))))))

SeqsUpTo(S, n) == UNION {[1..k -> S] : k \in 0..n}

(***************************************************************************)
(* config/event-logs.js and DashboardGenerator.extractEventAction          *)
(* (generate-html.js 54-89).  A string is the sequence of its characters;  *)
(* a message is [present, text], present false for null or undefined.      *)
(***************************************************************************)
\* config/event-logs.js 70: fallback.maxLength as shipped
shippedMaxLength == 30

\* config/event-logs.js 62: the literal in the shipped customDisplayFunction
customDisplayLimit == 30

Ellipsis == <<".", ".", ".">>

Text(t) == [present |-> TRUE, text |-> t]

NoText == [present |-> FALSE, text |-> <<>>]

\* String.prototype.substring(a, b) for 0 <= a <= b
substring(t, a, b) == SubSeq(t, a + 1, IF b < Len(t) THEN b ELSE Len(t))

\* String.prototype.indexOf(c, from) + 1: the first position at or after from, 0 for none
RECURSIVE indexOf(_, _, _)
indexOf(t, c, from) ==
    IF from > Len(t) THEN 0
    ELSE IF t[from] = c THEN from
    ELSE indexOf(t, c, from + 1)

\* String.prototype.trim, the blank being the one white space drawn
RECURSIVE trim(_)
trim(t) ==
    IF t = <<>> THEN t
    ELSE IF Head(t) = " " THEN trim(Tail(t))
    ELSE IF t[Len(t)] = " " THEN trim(SubSeq(t, 1, Len(t) - 1))
    ELSE t

\* config/event-logs.js 47: message.match(/\[([^\]]+)\]/), the leftmost '[' followed by
\* one or more characters other than ']' and then ']'; group is the capture
RECURSIVE displayRegex_from(_, _)
displayRegex_from(t, from) ==
    LET open == indexOf(t, "[", from)
        close == indexOf(t, "]", open + 1)
    IN  IF open = 0 THEN [matched |-> FALSE, group |-> <<>>]
        ELSE IF close = 0 THEN [matched |-> FALSE, group |-> <<>>]
        ELSE IF close = open + 1 THEN displayRegex_from(t, open + 1)
        ELSE [matched |-> TRUE, group |-> SubSeq(t, open + 1, close - 1)]

displayRegex(t) == displayRegex_from(t, 1)

\* config/event-logs.js 56-63: the shipped customDisplayFunction
customDisplayFunction(t) ==
    LET colon == indexOf(t, ":", 1) IN
    IF colon # 0 /\ colon < Len(t) THEN trim(SubSeq(t, colon + 1, Len(t)))
    ELSE substring(t, 0, customDisplayLimit) \o Ellipsis

\* the truncation with the ellipsis left out
truncation_NoEllipsis(t, maxLength) ==
    IF Len(t) > maxLength THEN substring(t, 0, maxLength) ELSE t

\* 66-68, 74-76, 85-87: message.length > fallbackMaxLength
\*     ? message.substring(0, fallbackMaxLength) + '...' : message
truncation(t, maxLength) ==
    IF Len(t) > maxLength THEN substring(t, 0, maxLength) \o Ellipsis ELSE t

\* a configuration: custom names what customDisplayFunction does, the shipped function,
\* a function that throws, or one that returns the empty string
Configurations ==
    {[displayAlgorithm |-> a[1], custom |-> a[2], maxLength |-> n] :
        a \in {<<"regex", "shipped">>, <<"unknown", "shipped">>, <<"custom", "shipped">>,
               <<"custom", "throws">>, <<"custom", "empty">>},
        n \in {MaxFallback, shippedMaxLength}}

\* 59-83: the try block; a member read of null or undefined throws
extractEventAction_try(message, config) ==
    IF ~message.present THEN
        IF config.displayAlgorithm = "custom" /\ config.custom = "empty"
        THEN Thrown("TypeError")                       \* 74: message.length
        ELSE Thrown("TypeError")                       \* 61, 72, 80: message.match, the call
    ELSE IF config.displayAlgorithm = "regex" THEN
        IF displayRegex(message.text).matched THEN Ok(displayRegex(message.text).group)
        ELSE Ok(truncation(message.text, config.maxLength))
    ELSE IF config.displayAlgorithm = "custom" THEN
        IF config.custom = "throws" THEN Thrown("Error")
        ELSE LET result == IF config.custom = "empty" THEN <<>>
                           ELSE customDisplayFunction(message.text)
             IN  IF result # <<>> THEN Ok(result)
                 ELSE Ok(truncation(message.text, config.maxLength))
    ELSE IF displayRegex(message.text).matched THEN Ok(displayRegex(message.text).group)
         ELSE Ok(substring(message.text, 0, config.maxLength) \o Ellipsis)

\* 84-88: the catch block
extractEventAction_catch(message, config) ==
    IF ~message.present THEN Thrown("TypeError")       \* 86: message.length
    ELSE Ok(truncation(message.text, config.maxLength))

\* 54-89
extractEventAction(message, config) ==
    IF extractEventAction_try(message, config).thrown
    THEN extractEventAction_catch(message, config)
    ELSE extractEventAction_try(message, config)

\* the messages drawn: a short body, alone or followed by as many characters as take it
\* past the shipped fallback.maxLength
Letters == {"[", "]", ":", "a", " "}

Padding == [j \in 1..shippedMaxLength |-> "a"]

Messages ==
    {Text(b) : b \in SeqsUpTo(Letters, MaxMessageLen)}
        \cup {Text(b \o Padding) : b \in SeqsUpTo(Letters, MaxMessageLen)}
        \cup {NoText}

(***************************************************************************)
(* escapeHtml (91-99) and the strings the two documents take from the      *)
(* snapshot (generateErrorHTML 266-327, generateComprehensiveHTML          *)
(* 329-673): inserted is the sequence of [slot, text], in document order,  *)
(* text being what the template literal receives.                          *)
(***************************************************************************)
\* String.prototype.replace(/c/g, r)
RECURSIVE replace(_, _, _)
replace(t, c, r) ==
    IF t = <<>> THEN <<>>
    ELSE (IF Head(t) = c THEN r ELSE <<Head(t)>>) \o replace(Tail(t), c, r)

\* the five replacements with & replaced last
escapeHtml_AmpersandLast(t) ==
    replace(replace(replace(replace(replace(t,
        "<", <<"&", "l", "t", ";">>),
        ">", <<"&", "g", "t", ";">>),
        "\"", <<"&", "q", "u", "o", "t", ";">>),
        "'", <<"&", "#", "3", "9", ";">>),
        "&", <<"&", "a", "m", "p", ";">>)

\* 91-99
escapeHtml(t) ==
    replace(replace(replace(replace(replace(t,
        "&", <<"&", "a", "m", "p", ";">>),
        "<", <<"&", "l", "t", ";">>),
        ">", <<"&", "g", "t", ";">>),
        "\"", <<"&", "q", "u", "o", "t", ";">>),
        "'", <<"&", "#", "3", "9", ";">>)

\* 545: allServices.slice(0, 12)
maxServiceBoxes == 12

\* 570, 648: volumes.slice(0, 8)
maxVolumeBoxes == 8

\* 613: eventLogs.slice(0, 8)
maxEventItems == 8

\* Array.prototype.slice(0, n)
slice(s, n) == SubSeq(s, 1, IF Len(s) < n THEN Len(s) ELSE n)

Piece(slot, t) == [slot |-> slot, text |-> t]

\* config/event-logs.js 33, 56, 70: the configuration as shipped
shippedConfig ==
    [displayAlgorithm |-> "regex", custom |-> "shipped", maxLength |-> shippedMaxLength]

\* 345-349, 387, 537: the names joined into workspaceTitle
workspaceTitle(workspaces, filtered) ==
    IF filtered /\ Len(workspaces) = 1 /\ Len(workspaces[1].projects) = 1
    THEN <<Piece("project.name", workspaces[1].projects[1].name)>>
    ELSE MapSeq(workspaces, LAMBDA w : Piece("workspace.name", w.name))

\* 545-563
serviceBoxes(rows, filtered) ==
    Concat(MapSeq(slice(rows, maxServiceBoxes), LAMBDA r :
        (IF filtered THEN <<>> ELSE <<Piece("project.name", r.projectName)>>)
            \o <<Piece("service.name", r.serviceName),
                 Piece("environment.name", r.environmentName)>>))

\* 570-584, 648-662
volumeBoxes(volumes) ==
    Concat(MapSeq(slice(volumes, maxVolumeBoxes), LAMBDA v :
        <<Piece("service.name", v.serviceName),
          Piece("environment.name", v.environmentName),
          Piece("volume.mountPath", v.mountPath)>>))

\* 595-610, 625-640: the service and environment of the first deployment in the
\* environment the logs are of; the environment id itself comes from the process
\* environment and is left out of inserted
eventsHeading(workspaces, logsEnvId) ==
    LET found == Concat(MapSeq(workspaces, LAMBDA w :
                     Concat(MapSeq(w.projects, LAMBDA pr :
                         Concat(MapSeq(pr.services, LAMBDA sv :
                             MapSeq(SelectSeq(sv.deployments,
                                              LAMBDA d : d.environmentId = logsEnvId),
                                    LAMBDA d : <<Piece("service.name", sv.name),
                                                 Piece("environment.name",
                                                       d.environmentName)>>)))))))
    IN  IF found = <<>> THEN <<>> ELSE found[1]

\* 613-618
eventItems(eventLogs) ==
    Concat(MapSeq(slice(eventLogs, maxEventItems), LAMBDA log :
        <<Piece("log.severity", log.severity),
          Piece("log.message",
                escapeHtml(extractEventAction(log.message, shippedConfig).value))>>))

\* 616: extractEventAction left with an exception on one of the rendered entries
eventItems_throw(eventLogs) ==
    \E j \in 1..Len(slice(eventLogs, maxEventItems)) :
        extractEventAction(eventLogs[j].message, shippedConfig).thrown

\* 329-673: whether the template throws
generateComprehensiveHTML_throws(data, x) ==
    data.eventLogsEnvironmentId # "" /\ x.eventLogs # <<>> /\ eventItems_throw(x.eventLogs)

\* 329-673: x is what extractComprehensiveData returned
generateComprehensiveHTML(data, x) ==
    workspaceTitle(x.workspaces, x.hasFilters)
        \o serviceBoxes(allServices(x.workspaces), x.hasFilters)
        \o (IF data.eventLogsEnvironmentId = "" /\ x.volumes # <<>>
            THEN volumeBoxes(x.volumes) ELSE <<>>)
        \o (IF data.eventLogsEnvironmentId # ""
            THEN eventsHeading(x.workspaces, data.eventLogsEnvironmentId)
                     \o (IF x.eventLogs # <<>> THEN eventItems(x.eventLogs) ELSE <<>>)
            ELSE IF x.volumes # <<>> THEN volumeBoxes(x.volumes) ELSE <<>>)

\* 542-664: the number of service boxes, volume boxes (both columns) and event items in
\* the document
boxes(data, x) ==
    [services |-> Len(slice(allServices(x.workspaces), maxServiceBoxes)),
     volumes |-> (IF data.eventLogsEnvironmentId = "" /\ x.volumes # <<>>
                  THEN Len(slice(x.volumes, maxVolumeBoxes)) ELSE 0)
                 + (IF data.eventLogsEnvironmentId = "" /\ x.volumes # <<>>
                    THEN Len(slice(x.volumes, maxVolumeBoxes)) ELSE 0),
     events |-> IF data.eventLogsEnvironmentId # ""
                THEN Len(slice(x.eventLogs, maxEventItems)) ELSE 0]

NoBoxes == [services |-> 0, volumes |-> 0, events |-> 0]

\* 542-664: the [list, omitted] indicators of entries left out; the template writes
\* nothing about the entries past a slice
moreIndicators(data, x) == <<>>

\* 266-327
generateErrorHTML(data) ==
    <<Piece("error.message", data.error.message), Piece("error.type", data.error.type)>>

(***************************************************************************)
(* DashboardGenerator.generateHTML (675-686) on loaded data.  The result   *)
(* records, beside whether it threw, what the claims speak of: the lookup  *)
(* the extraction built, what it returned, the rows of the Services        *)
(* section, the strings inserted, the numbers of boxes, the indicators of  *)
(* omitted entries and the sections written as an inline placeholder.      *)
(***************************************************************************)
\* 542, 567, 590-644: the sections that, empty, are written as a placeholder; the Services
\* and Volumes sections are left out when empty, the events section says 'No recent
\* events' when a logs environment is set
placeholders(data, x) ==
    IF data.eventLogsEnvironmentId # "" /\ x.eventLogs = <<>> THEN {"events"} ELSE {}

generateHTML(data) ==
    LET x == extractComprehensiveData(data)
        throws == data.success /\ generateComprehensiveHTML_throws(data, x)
    IN  [fn |-> "generateHTML",
         thrown |-> throws,
         deploymentMap |-> IF data.success THEN deploymentMap(data) ELSE EmptyMap,
         extracted |-> x,
         allServices |-> allServices(x.workspaces),
         boxes |-> IF ~data.success \/ throws THEN NoBoxes ELSE boxes(data, x),
         more |-> IF ~data.success \/ throws THEN <<>> ELSE moreIndicators(data, x),
         placeholders |-> IF ~data.success \/ throws THEN {} ELSE placeholders(data, x),
         inserted |-> IF ~data.success THEN generateErrorHTML(data)
                      ELSE IF throws THEN <<>>
                      ELSE generateComprehensiveHTML(data, x)]

\* generate-html.js 19-27 on what fetchDashboardData returned (query-railway.js 484-502,
\* 513-520): the deployments are {deployments: {edges}}, and queryInfo is {errors,
\* eventLogsQueryUsed}, so that queryInfo.filters reads undefined
loadData(s) ==
    IF s.success
    THEN [success |-> TRUE,
          projects |-> s.data.projects,
          deployments |-> DeploymentsSlot("deployments",
                              IF HasEdges(s.data.deployments) THEN s.data.deployments.edges
                              ELSE <<>>),
          volumes |-> s.data.volumes,
          eventLogs |-> s.data.eventLogs,
          eventLogsEnvironmentId |-> s.data.eventLogsEnvironmentId,
          queryInfo |-> [filters |-> NoFilters],
          error |-> [message |-> <<>>, type |-> <<>>]]
    ELSE [success |-> FALSE, projects |-> NoData,
          deployments |-> DeploymentsSlot("deployments", <<>>),
          volumes |-> NoData, eventLogs |-> NoEventLogs, eventLogsEnvironmentId |-> "",
          queryInfo |-> [filters |-> NoFilters],
          error |-> s.error]

(***************************************************************************)
(* server.js: the routes.  A behaviour follows one request, from any       *)
(* environment.  An action is the request's arrival with everything the    *)
(* middleware and the handler do up to the first await, or the settling of *)
(* the awaited query with everything done up to the next await or the      *)
(* response.                                                               *)
(***************************************************************************)
ServerUnchanged == UNCHANGED <<env, fin, fout, call, proc>>

\* no generator is constructed
NoGenerator == UNCHANGED <<gin, gout>>

\* a request arrives at the listening server
Arrives(r) == req' = r

\* the server is listening and no request has arrived
Listening == pc = "idle"

Respond(status, body) ==
    /\ res' = [status |-> status, body |-> body]
    /\ pc' = "responded"

\* authenticateToken answers the request itself
Rejected(r) ==
    /\ authenticateToken(r) # 0
    /\ Respond(authenticateToken(r), AuthBody(authenticateToken(r)))
    /\ handler' = "" /\ filters' = NoFilters /\ issued' = <<>>
    /\ locals' = NoLocals /\ snapshot' = NoSnapshot

\* 82-88
GetHealth ==
    /\ Listening
    /\ \E r \in Requests :
          /\ r.route = "/health"
          /\ Arrives(r)
    /\ Respond(200, "health")
    /\ handler' = "/health" /\ filters' = NoFilters /\ issued' = <<>>
    /\ locals' = NoLocals /\ snapshot' = NoSnapshot
    /\ ServerUnchanged
    /\ NoGenerator

\* 270-283
NotFound ==
    /\ Listening
    /\ \E r \in Requests :
          /\ r.route \notin {"/health", "/", "/api/data", "/debug", "/debug/advanced"}
          /\ Arrives(r)
    /\ Respond(404, "not-found")
    /\ handler' = "" /\ filters' = NoFilters /\ issued' = <<>>
    /\ locals' = NoLocals /\ snapshot' = NoSnapshot
    /\ ServerUnchanged
    /\ NoGenerator

\* the id read from the process environment alone
terminusLogsEnvId_EnvOnly(r) == env.TERMINUS_LOGS_ENV_ID

\* x-logs-environment-id || x-terminus-logs-env-id || TERMINUS_LOGS_ENV_ID
terminusLogsEnvId(r) ==
    IF r.logsEnvironmentId # "" THEN r.logsEnvironmentId
    ELSE IF r.terminusLogsEnvId # "" THEN r.terminusLogsEnvId
    ELSE env.TERMINUS_LOGS_ENV_ID

\* 92-113 and 228-246: the handler of / and of /api/data up to the first query
Dashboard(r) ==
    /\ authenticateToken(r) = 0
    /\ handler' = r.route
    /\ filters' = [projectId |-> r.projectId, serviceId |-> r.serviceId,
                   environmentId |-> r.environmentId]
    /\ snapshot' = NoSnapshot
    /\ IF env.RAILWAY_TOKEN = ""
       THEN /\ Respond(500, "railway-configuration-error")
            /\ issued' = <<>> /\ locals' = NoLocals
       ELSE /\ issued' = <<"Projects, Services, and Environments">>
            /\ locals' = [NoLocals EXCEPT !.terminusLogsEnvId = terminusLogsEnvId(r)]
            /\ pc' = "projects" /\ res' = NoResponse

\* 91-136
GetRoot ==
    /\ Listening
    /\ \E r \in Requests :
          /\ r.route = "/"
          /\ Arrives(r)
          /\ Rejected(r) \/ Dashboard(r)
    /\ ServerUnchanged
    /\ NoGenerator

\* 227-258
GetApiData ==
    /\ Listening
    /\ \E r \in Requests :
          /\ r.route = "/api/data"
          /\ Arrives(r)
          /\ Rejected(r) \/ Dashboard(r)
    /\ ServerUnchanged
    /\ NoGenerator

\* 116-135 and 248: the handler from the returned snapshot on.  On / the generator is
\* given the snapshot and generateHTML is called; an exception it throws is answered by
\* the catch block with the 500 JSON body
Finish(l) ==
    /\ locals' = l
    /\ snapshot' = dashboardData(l, filters)
    /\ issued' = issued
    /\ IF handler = "/api/data"
       THEN /\ Respond(200, "snapshot")
            /\ NoGenerator
       ELSE /\ gin' = [fn |-> "generateHTML", data |-> loadData(dashboardData(l, filters))]
            /\ gout' = generateHTML(loadData(dashboardData(l, filters)))
            /\ IF generateHTML(loadData(dashboardData(l, filters))).thrown
               THEN Respond(500, "internal-server-error")
               ELSE IF dashboardData(l, filters).success THEN Respond(200, "html")
               ELSE Respond(200, "error-html")

ProjectsSettled ==
    /\ pc = "projects"
    /\ \E o \in Outcomes(ProjectsResponses) : locals' = projectsSettled(locals, o)
    /\ issued' = Append(issued, "Latest Deployments")
    /\ pc' = "deployments"
    /\ UNCHANGED <<handler, req, res, filters, snapshot>>
    /\ ServerUnchanged
    /\ NoGenerator

DeploymentsSettled ==
    /\ pc = "deployments"
    /\ \E o \in Outcomes(DeploymentsResponses) : locals' = deploymentsSettled(locals, o)
    /\ issued' = Append(issued, "Volume Usage")
    /\ pc' = "volumes"
    /\ UNCHANGED <<handler, req, res, filters, snapshot>>
    /\ ServerUnchanged
    /\ NoGenerator

VolumesSettled ==
    /\ pc = "volumes"
    /\ \E o \in Outcomes(VolumesResponses) :
          IF locals.terminusLogsEnvId # ""
          THEN /\ locals' = volumesSettled(locals, o)
               /\ issued' = Append(issued, "Event Logs")
               /\ pc' = "eventLogs"
               /\ UNCHANGED <<res, snapshot>>
               /\ NoGenerator
          ELSE Finish(eventLogsSkipped(volumesSettled(locals, o)))
    /\ UNCHANGED <<handler, req, filters>>
    /\ ServerUnchanged

EventLogsSettled ==
    /\ pc = "eventLogs"
    /\ \E o \in Outcomes(EventLogsResponses) : Finish(eventLogsSettled(locals, o))
    /\ UNCHANGED <<handler, req, filters>>
    /\ ServerUnchanged

(***************************************************************************)
(* The debug routes: testIndividualQueries (generate-html.js 690-763) and  *)
(* debugAdvanced (debug-advanced.js).  Each issues its diagnostic queries  *)
(* one after the other and returns early when the first one fails.         *)
(***************************************************************************)
\* the names of the queries of a debug run, in order
DebugQueries(route) ==
    IF route = "/debug"
    THEN <<"Basic Auth Test", "Volume Sizes", "Latest Deployments">>
         \o (IF env.RAILWAY_ENVIRONMENT_ID # "" THEN <<"Event Logs">> ELSE <<>>)
    ELSE <<"User Info", "Workspaces", "Projects", "Basic Volume Query", "Volume with Size Info">>
         \o (IF env.RAILWAY_ENVIRONMENT_ID # ""
             THEN <<"Event Logs with Date Range", "Event Logs Simple">> ELSE <<>>)

\* the handler of a debug route up to the first query; without RAILWAY_TOKEN the
\* process exits
Debug(r) ==
    /\ authenticateToken(r) = 0
    /\ handler' = r.route
    /\ filters' = NoFilters /\ snapshot' = NoSnapshot /\ res' = NoResponse
    /\ IF env.RAILWAY_TOKEN = ""
       THEN /\ pc' = "exited"
            /\ issued' = <<>> /\ locals' = NoLocals
       ELSE /\ pc' = "debug"
            /\ issued' = <<Head(DebugQueries(r.route))>>
            /\ locals' = [NoLocals EXCEPT !.pending = Tail(DebugQueries(r.route))]

\* 139-180
GetDebug ==
    /\ Listening
    /\ \E r \in Requests :
          /\ r.route = "/debug"
          /\ Arrives(r)
          /\ Rejected(r) \/ Debug(r)
    /\ ServerUnchanged
    /\ NoGenerator

\* 183-224
GetDebugAdvanced ==
    /\ Listening
    /\ \E r \in Requests :
          /\ r.route = "/debug/advanced"
          /\ Arrives(r)
          /\ Rejected(r) \/ Debug(r)
    /\ ServerUnchanged
    /\ NoGenerator

\* a diagnostic query settles
DebugSettled ==
    /\ pc = "debug"
    /\ \E ok \in BOOLEAN :
          IF (~ok /\ Len(issued) = 1) \/ locals.pending = <<>>
          THEN /\ Respond(200, "debug")
               /\ UNCHANGED <<issued, locals>>
          ELSE /\ issued' = Append(issued, Head(locals.pending))
               /\ locals' = [locals EXCEPT !.pending = Tail(@)]
               /\ UNCHANGED <<pc, res>>
    /\ UNCHANGED <<handler, req, filters, snapshot>>
    /\ ServerUnchanged
    /\ NoGenerator

(***************************************************************************)
(* The server.                                                             *)
(***************************************************************************)
Init ==
    /\ env \in Environment
    /\ pc = "idle" /\ handler = "" /\ req = NoRequest /\ res = NoResponse
    /\ filters = NoFilters /\ issued = <<>> /\ locals = NoLocals /\ snapshot = NoSnapshot
    /\ fin = [data |-> NoData, filters |-> NoFilters]
    /\ fout = NotCalled
    /\ gin = NoArguments /\ gout = NoReturn
    /\ call = NoCall /\ proc = NoProcess

Next ==
    \/ GetHealth
    \/ NotFound
    \/ GetRoot
    \/ GetApiData
    \/ GetDebug
    \/ GetDebugAdvanced
    \/ ProjectsSettled
    \/ DeploymentsSettled
    \/ VolumesSettled
    \/ EventLogsSettled
    \/ DebugSettled

Spec == Init /\ [][Next]_vars

(***************************************************************************)
(* The snapshots handed to the generator.                                  *)
(***************************************************************************)
\* the deployments the lookup is built from: the deployments met under
\* deployments.me.workspaces, each with the id of the service it was met under
DeploymentEntries ==
    {[serviceId |-> k[1], environmentId |-> k[2], createdAt |-> t] :
        k \in {<<"s1", "e1">>, <<"s1", "e2">>, <<"s2", "e1">>}, t \in 0..2}

DeploymentSlots ==
    {DeploymentsSlot("me", ds) : ds \in SeqsUpTo(DeploymentEntries, MaxDeployments)}
        \cup {DeploymentsSlot("deployments", <<d>>) : d \in DeploymentEntries}

GService(i, n) == [id |-> i, name |-> n, deployments |-> NoConn]
GEnvironment(i, n) == [id |-> i, name |-> n, volumeInstances |-> NoConn]

GServices ==
    {NoConn, Edges(<<>>), Edges(<<GService("s1", <<"w", "e", "b">>)>>),
     Edges(<<GService("s1", <<"w", "e", "b">>), GService("s2", <<"d", "b">>)>>)}

GEnvironments ==
    {NoConn, Edges(<<GEnvironment("e1", <<"p", "r", "o", "d">>)>>),
     Edges(<<GEnvironment("e1", <<"p", "r", "o", "d">>), GEnvironment("e2", <<"s", "t", "g">>)>>),
     Edges(<<GEnvironment("e2", <<"s", "t", "g">>), GEnvironment("e1", <<"p", "r", "o", "d">>)>>)}

GTree(workspaceName, projectName, sv, e) ==
    [hasWorkspaces |-> TRUE,
     workspaces |-> <<[name |-> workspaceName, projects |-> NoConn,
                       team |-> Team(Edges(<<[id |-> "p1", name |-> projectName,
                                              services |-> sv, environments |-> e,
                                              volumes |-> NoConn]>>))]>>]

GProjects ==
    {GTree(<<"w">>, <<"p">>, sv, e) : sv \in GServices, e \in GEnvironments}
        \cup {Data(<<[name |-> <<"w">>, projects |-> NoConn, team |-> NoTeam]>>), NoData}

\* names as upstream may supply them, with and without markup characters
Names == {<<"a">>, <<"<", "b", ">">>, <<"&", "'", "\"">>}

GNamedProjects ==
    {GTree(wn, pn, Edges(<<GService("s1", sn)>>), Edges(<<GEnvironment("e1", en)>>)) :
        wn \in Names, pn \in Names, sn \in Names, en \in Names}

GInstance(sv, path) == [service |-> sv, mountPath |-> path]

GInstances ==
    {GInstance(sv, path) :
        sv \in {[present |-> FALSE, name |-> <<>>]}
                  \cup {[present |-> TRUE, name |-> n] : n \in Names \cup {<<>>}},
        path \in {<<"/", "d">>, <<"/", "<">>}}

GVolumes ==
    {[hasWorkspaces |-> TRUE,
      workspaces |-> <<[name |-> <<"w">>, projects |-> NoConn,
                        team |-> Team(Edges(<<[id |-> "p1", name |-> <<"p">>,
                                               services |-> NoConn, volumes |-> NoConn,
                                               environments |-> Edges(<<
                                                   [id |-> "e1", name |-> en,
                                                    volumeInstances |-> c]>>)]>>))]>>] :
        en \in Names,
        c \in {NoConn, Edges(<<>>)} \cup {Edges(<<i>>) : i \in GInstances}
                \cup {Edges(<<i, i>>) : i \in GInstances}}

Instants == 1..3

\* an upstream log entry; attributes stands for the members the flattener does not read
LogEntries ==
    {[timestamp |-> t, message |-> m, severity |-> sv, attributes |-> "a"] :
        t \in Instants,
        m \in {Text(<<"[", "<", "]">>), Text(<<"x", "&">>), NoText},
        sv \in {<<"i">>, <<"\"", ">">>}}

EventLogLists == {EventLogs(l) : l \in SeqsUpTo(LogEntries, MaxLogs)} \cup {NoEventLogs}

GSnapshot(p, d, v, l, f) ==
    [success |-> TRUE, projects |-> p, deployments |-> d, volumes |-> v, eventLogs |-> l,
     eventLogsEnvironmentId |-> IF l = NoEventLogs \/ l = EventLogs(<<>>) THEN "" ELSE "e1",
     queryInfo |-> [filters |-> f],
     error |-> [message |-> <<>>, type |-> <<>>]]

\* a failure snapshot: success false and the error of the failed fetch
GFailure(m, t) ==
    [success |-> FALSE, projects |-> NoData, deployments |-> DeploymentsSlot("me", <<>>),
     volumes |-> NoData, eventLogs |-> NoEventLogs, eventLogsEnvironmentId |-> "",
     queryInfo |-> [filters |-> NoFilters],
     error |-> [message |-> m, type |-> t]]

OneDeployment ==
    DeploymentsSlot("me", <<[serviceId |-> "s1", environmentId |-> "e1", createdAt |-> 1]>>)

\* snapshots with one list longer than the document shows of it
GLongLogs ==
    EventLogs([j \in 1..(maxEventItems + 1) |->
                  [timestamp |-> 1, message |-> Text(<<"x">>), severity |-> <<"i">>,
                   attributes |-> "a"]])

GLongVolumes ==
    [hasWorkspaces |-> TRUE,
     workspaces |-> <<[name |-> <<"w">>, projects |-> NoConn,
                       team |-> Team(Edges(<<[id |-> "p1", name |-> <<"p">>,
                                              services |-> NoConn, volumes |-> NoConn,
                                              environments |-> Edges(<<
                                                  [id |-> "e1", name |-> <<"a">>,
                                                   volumeInstances |->
                                                       Edges([j \in 1..(maxVolumeBoxes + 1) |->
                                                           GInstance([present |-> FALSE,
                                                                      name |-> <<>>],
                                                                     <<"/", "d">>)])]>>)]>>))]>>]

GLongProjects ==
    GTree(<<"w">>, <<"p">>,
          Edges([j \in 1..(maxServiceBoxes + 1) |-> GService("s1", [k \in 1..j |-> "s"])]),
          Edges(<<GEnvironment("e1", <<"p", "r", "o", "d">>)>>))

GSnapshots ==
    {GSnapshot(p, d, NoData, EventLogs(<<>>), NoFilters) :
        p \in GProjects, d \in DeploymentSlots}
        \cup {GSnapshot(p, OneDeployment, NoData, l, f) :
                 p \in GNamedProjects,
                 l \in {EventLogs(<<>>),
                        EventLogs(<<[timestamp |-> 1, message |-> Text(<<"x">>),
                                     severity |-> <<"i">>, attributes |-> "a"]>>)},
                 f \in {NoFilters, [NoFilters EXCEPT !.projectId = "p1"]}}
        \cup {GSnapshot(NoData, DeploymentsSlot("me", <<>>), v, EventLogs(<<>>), NoFilters) :
                 v \in GVolumes}
        \cup {GSnapshot(NoData, DeploymentsSlot("me", <<>>), NoData, l, NoFilters) :
                 l \in EventLogLists}
        \cup {GFailure(m, t) : m \in Names \cup {<<>>}, t \in Names}
        \cup {GSnapshot(GLongProjects, OneDeployment, NoData, EventLogs(<<>>), NoFilters),
               GSnapshot(NoData, DeploymentsSlot("me", <<>>), GLongVolumes, EventLogs(<<>>),
                         NoFilters),
               GSnapshot(NoData, DeploymentsSlot("me", <<>>), NoData, GLongLogs, NoFilters)}

(***************************************************************************)
(* The generator's methods applied to drawn arguments.                     *)
(***************************************************************************)
GeneratorUnchanged ==
    UNCHANGED <<env, pc, handler, req, res, filters, issued, locals, snapshot, fin, fout,
                call, proc>>

\* 675-686: generateHTML on a loaded snapshot
Call_generateHTML ==
    /\ gout.fn = "none"
    /\ \E data \in GSnapshots :
          /\ gin' = [fn |-> "generateHTML", data |-> data]
          /\ gout' = generateHTML(data)
    /\ GeneratorUnchanged

\* extractEventAction on a drawn message under a drawn configuration
Call_extractEventAction ==
    /\ gout.fn = "none"
    /\ \E message \in Messages, config \in Configurations :
          /\ gin' = [fn |-> "extractEventAction", message |-> message, config |-> config]
          /\ gout' = [fn |-> "extractEventAction",
                      thrown |-> extractEventAction(message, config).thrown,
                      value |-> extractEventAction(message, config).value]
    /\ GeneratorUnchanged

\* the texts drawn for escapeHtml: every short text, and the text of the documented example
MarkupLetters == {"&", "<", ">", "\"", "'", "a", ";"}

Texts == SeqsUpTo(MarkupLetters, MaxTextLen) \cup {<<"<", "a", ">", "&", "\"", "'">>}

\* escapeHtml on a drawn text
Call_escapeHtml ==
    /\ gout.fn = "none"
    /\ \E t \in Texts :
          /\ gin' = [fn |-> "escapeHtml", text |-> t]
          /\ gout' = [fn |-> "escapeHtml", thrown |-> FALSE, value |-> escapeHtml(t)]
    /\ GeneratorUnchanged

InitGenerator ==
    /\ gin = NoArguments /\ gout = NoReturn
    /\ call = NoCall /\ proc = NoProcess
    /\ env = NoEnv /\ pc = "idle" /\ handler = "" /\ req = NoRequest /\ res = NoResponse
    /\ filters = NoFilters /\ issued = <<>> /\ locals = NoLocals /\ snapshot = NoSnapshot
    /\ fin = [data |-> NoData, filters |-> NoFilters]
    /\ fout = NotCalled

NextGenerator ==
    \/ Call_generateHTML
    \/ Call_extractEventAction
    \/ Call_escapeHtml

SpecGenerator == InitGenerator /\ [][NextGenerator]_vars

(***************************************************************************)
(* RailwayClient.makeGraphQLRequest (query-railway.js 16-65).  The call    *)
(* writes the request and returns a pending promise; then the request      *)
(* emits 'error', or the response ends with a body.  A body is what        *)
(* JSON.parse makes of it: not JSON, the value null, or an object with     *)
(* its errors member (absent, or an array of entries, an entry being an    *)
(* object with a message or null) and its data member.                     *)
(***************************************************************************)
NoErrorsMember == [present |-> FALSE, entries |-> <<>>]

ErrorsMember(es) == [present |-> TRUE, entries |-> es]

\* an entry of errors: {message: m}, or null
ErrorEntries == {[isObject |-> TRUE, message |-> "m1"], [isObject |-> TRUE, message |-> "m2"],
                 [isObject |-> FALSE, message |-> ""]}

Bodies ==
    {[json |-> "invalid", errors |-> NoErrorsMember, data |-> NoData],
     [json |-> "null", errors |-> NoErrorsMember, data |-> NoData]}
        \cup {[json |-> "object", errors |-> e, data |-> d] :
                 e \in {NoErrorsMember} \cup {ErrorsMember(es) :
                                                  es \in SeqsUpTo(ErrorEntries, MaxErrors)},
                 d \in {NoData, Data(<<>>),
                        Data(<<[name |-> <<"w">>, team |-> NoTeam, projects |-> NoConn]>>)}}

QueryNames == {"Projects, Services, and Environments", "Latest Deployments", "Event Logs"}

Pending == [state |-> "pending", kind |-> "none", messages |-> <<>>, data |-> NoData]

\* resolve and reject act on a pending promise alone
settle(promise, outcome) == IF promise.state = "pending" THEN outcome ELSE promise

resolved(d) == [state |-> "resolved", kind |-> "data", messages |-> <<>>, data |-> d]

rejected(kind, ms) == [state |-> "rejected", kind |-> kind, messages |-> ms, data |-> NoData]

\* 42-54: the 'end' listener.  parsed.errors of null and err.message of a null entry throw
\* inside the try block and are answered by its catch
onEnd(body) ==
    IF body.json = "invalid" THEN rejected("parse", <<>>)
    ELSE IF body.json = "null" THEN rejected("parse", <<>>)
    ELSE IF body.errors.present
         THEN IF \E j \in 1..Len(body.errors.entries) : ~body.errors.entries[j].isObject
              THEN rejected("parse", <<>>)
              ELSE rejected("upstream", MapSeq(body.errors.entries, LAMBDA e : e.message))
    ELSE resolved(body.data)

\* 58-60: the 'error' listener
onError == rejected("network", <<>>)

ClientUnchanged ==
    UNCHANGED <<env, pc, handler, req, res, filters, issued, locals, snapshot, fin, fout,
                gin, gout, proc>>

\* 16-37, 62-63: the request is written and the promise returned
Call_makeGraphQLRequest ==
    /\ call.fn = "none"
    /\ \E q \in QueryNames :
          call' = [fn |-> "makeGraphQLRequest", queryName |-> q, event |-> "none",
                   body |-> [json |-> "invalid", errors |-> NoErrorsMember, data |-> NoData],
                   settlements |-> 0, promise |-> Pending]
    /\ ClientUnchanged

\* 39-55: the response ends with a body
ResponseEnds ==
    /\ call.fn = "makeGraphQLRequest" /\ call.event = "none"
    /\ \E body \in Bodies :
          call' = [call EXCEPT !.event = "end", !.body = body,
                               !.settlements = @ + (IF call.promise.state = "pending"
                                                    THEN 1 ELSE 0),
                               !.promise = settle(@, onEnd(body))]
    /\ ClientUnchanged

\* 58-60: the request fails
RequestErrors ==
    /\ call.fn = "makeGraphQLRequest" /\ call.event = "none"
    /\ call' = [call EXCEPT !.event = "error",
                            !.settlements = @ + (IF call.promise.state = "pending"
                                                 THEN 1 ELSE 0),
                            !.promise = settle(@, onError)]
    /\ ClientUnchanged

InitClient ==
    /\ call = NoCall /\ proc = NoProcess
    /\ gin = NoArguments /\ gout = NoReturn
    /\ env = NoEnv /\ pc = "idle" /\ handler = "" /\ req = NoRequest /\ res = NoResponse
    /\ filters = NoFilters /\ issued = <<>> /\ locals = NoLocals /\ snapshot = NoSnapshot
    /\ fin = [data |-> NoData, filters |-> NoFilters]
    /\ fout = NotCalled

NextClient ==
    \/ Call_makeGraphQLRequest
    \/ ResponseEnds
    \/ RequestErrors

SpecClient == InitClient /\ [][NextClient]_vars

(***************************************************************************)
(* The debug routes under overlapping requests (server.js 139-224).  The   *)
(* process has one console; console.log and console.error are assigned     *)
(* together at 148-156 and 162-163 (192-200 and 206-207), so one value      *)
(* stands for both: 0 for the functions the process started with, i for    *)
(* the wrappers request i installed.  A wrapper pushes the line on its     *)
(* request's logs array and calls the function its request found           *)
(* installed.  Requests are authenticated and RAILWAY_TOKEN is set; the    *)
(* diagnostic runs catch every failure of a query, so they return.         *)
(***************************************************************************)
RequestIds == 1..NumRequests

Waiting ==
    [pc |-> "waiting", route |-> "", original |-> 0, logs |-> <<>>, emitted |-> 0,
     left |-> 0, response |-> <<>>]

\* the n-th line request i wrote
Line(i, n) == [by |-> i, n |-> n]

\* 148-156: calling the installed function f with a line
RECURSIVE console_log(_, _, _)
console_log(f, line, rs) ==
    IF f = 0 THEN rs
    ELSE console_log(rs[f].original, line, [rs EXCEPT ![f].logs = Append(@, line)])

\* 162-163: console.log = originalLog; console.error = originalError
restore(r) == r.original

DebugUnchanged ==
    UNCHANGED <<env, pc, handler, req, res, filters, issued, locals, snapshot, fin, fout,
                gin, gout, call>>

\* 139-159: a debug request arrives; the handler writes its first line, installs its
\* wrappers and starts the diagnostic run, which writes its heading and awaits its first
\* query
DebugArrives ==
    /\ \E i \in RequestIds, route \in {"/debug", "/debug/advanced"}, steps \in 1..MaxSteps :
          /\ proc.requests[i].pc = "waiting"
          /\ LET called == console_log(proc.console, Line(i, 1), proc.requests)
                 patched == [called EXCEPT ![i] = [@ EXCEPT !.pc = "running",
                                                           !.route = route,
                                                           !.original = proc.console,
                                                           !.emitted = 2,
                                                           !.left = steps]]
             IN  proc' = [console |-> i,
                          requests |-> console_log(i, Line(i, 2), patched)]
    /\ DebugUnchanged

\* an awaited query of the run of request i settles and the run writes its next line; after
\* the last one the run returns, the handler restores the console and responds with its
\* logs (159-170)
DebugRuns ==
    /\ \E i \in RequestIds :
          /\ proc.requests[i].pc = "running"
          /\ LET n == proc.requests[i].emitted + 1
                 written == console_log(proc.console, Line(i, n), proc.requests)
             IN  IF proc.requests[i].left > 1
                 THEN proc' = [proc EXCEPT !.requests =
                                  [written EXCEPT ![i] = [@ EXCEPT !.emitted = n,
                                                                  !.left = @ - 1]]]
                 ELSE proc' = [console |-> restore(written[i]),
                               requests |->
                                  [written EXCEPT ![i] = [@ EXCEPT !.emitted = n,
                                                                  !.left = 0,
                                                                  !.pc = "done",
                                                                  !.response = written[i].logs]]]
    /\ DebugUnchanged

InitDebug ==
    /\ proc = [console |-> 0, requests |-> [i \in RequestIds |-> Waiting]]
    /\ call = NoCall
    /\ gin = NoArguments /\ gout = NoReturn
    /\ env = [TERMINUS_AUTH_TOKEN |-> <<"a">>, RAILWAY_TOKEN |-> "rw",
              TERMINUS_LOGS_ENV_ID |-> "", RAILWAY_ENVIRONMENT_ID |-> ""]
    /\ pc = "idle" /\ handler = "" /\ req = NoRequest /\ res = NoResponse
    /\ filters = NoFilters /\ issued = <<>> /\ locals = NoLocals /\ snapshot = NoSnapshot
    /\ fin = [data |-> NoData, filters |-> NoFilters]
    /\ fout = NotCalled

NextDebug ==
    \/ DebugArrives
    \/ DebugRuns

SpecDebug == InitDebug /\ [][NextDebug]_vars

(***************************************************************************)
(* Claims about the HTTP boundary and fetchDashboardData (Spec).           *)
(***************************************************************************)
Protected == {"/", "/api/data", "/debug", "/debug/advanced"}

NoSpace(s) == \A i \in 1..Len(s) : s[i] # " "

\* the header is "<scheme> <t>": a scheme, one space, and the non-empty token t
Carries(header, t) ==
    /\ t # <<>> /\ NoSpace(t)
    /\ \E k \in 2..Len(header) :
          /\ header[k] = " "
          /\ NoSpace(SubSeq(header, 1, k - 1))
          /\ t = SubSeq(header, k + 1, Len(header))

CarriesToken(header) == \E k \in 1..Len(header) : Carries(header, SubSeq(header, k, Len(header)))

\* C1: with TERMINUS_AUTH_TOKEN configured, a request to a protected route without an
\* Authorization header is answered 401, one whose bearer token differs from the
\* configured token is answered 403, and GET /health without the header is answered 200.
C1_AuthBoundary ==
    (pc # "idle" /\ env.TERMINUS_AUTH_TOKEN # <<>>)
        => /\ (req.route \in Protected /\ req.authorization = <<>>) => res.status = 401
           /\ (req.route \in Protected /\ CarriesToken(req.authorization)
               /\ ~Carries(req.authorization, env.TERMINUS_AUTH_TOKEN)) => res.status = 403
           /\ (req.route = "/health" /\ req.authorization = <<>>) => res.status = 200

\* C1 happens: a debug request carrying a token other than the configured one got 403
C1_Witness ==
    /\ env.TERMINUS_AUTH_TOKEN = <<"a">>
    /\ req.route = "/debug" /\ Carries(req.authorization, <<"b">>)
    /\ res.status = 403

\* C2: on every route other than /health, a query is issued, a dashboard, snapshot or
\* debug body is returned, or the route handler is entered only if the token of the
\* Authorization header equals the configured TERMINUS_AUTH_TOKEN.
C2_NothingWithoutToken ==
    (/\ req.route # "/health"
     /\ \/ issued # <<>>
        \/ res.body \in {"html", "error-html", "snapshot", "debug"}
        \/ handler # "")
        => /\ token(req.authorization) # <<>>
           /\ token(req.authorization) = env.TERMINUS_AUTH_TOKEN

\* C2 happens: a request with the configured token was served the dashboard from queries
C2_Witness ==
    /\ req.route = "/" /\ handler = "/"
    /\ token(req.authorization) = env.TERMINUS_AUTH_TOKEN
    /\ Len(issued) >= 3 /\ res.body = "html"

\* C3 (as claimed): when TERMINUS_AUTH_TOKEN is not configured, every request to a
\* protected route is answered 500, one without a token included.
C3_UnconfiguredAlways500 ==
    (pc # "idle" /\ env.TERMINUS_AUTH_TOKEN = <<>> /\ req.route \in Protected)
        => res.status = 500

\* C3 (amended): when TERMINUS_AUTH_TOKEN is not configured, a request to a protected
\* route is answered 500 if it carries a token and 401 if it carries none.
C3_UnconfiguredAnswer ==
    (pc # "idle" /\ env.TERMINUS_AUTH_TOKEN = <<>> /\ req.route \in Protected)
        => res.status = (IF token(req.authorization) = <<>> THEN 401 ELSE 500)

\* C3 happens: with no token configured, a request without a token got 401
C3_Witness ==
    /\ env.TERMINUS_AUTH_TOKEN = <<>> /\ req.route = "/api/data"
    /\ req.authorization = <<>>
    /\ res.status = 401

SeqRange(q) == {q[i] : i \in 1..Len(q)}

\* the queryInfo.errors entry naming a query
ErrorEntry(q) ==
    CASE q = "projects" -> "Projects query failed"
      [] q = "deployments" -> "Deployments query failed"
      [] q = "volumes" -> "Volumes query failed"
      [] OTHER -> "Event logs query failed"

\* C4 (as claimed): if a query of fetchDashboardData fails, the returned snapshot has
\* success = true and data.queryInfo.errors holds an entry naming the failed query.
C4_FailureIsReported ==
    snapshot.returned
        => \A q \in locals.failed :
              /\ snapshot.success
              /\ ErrorEntry(q) \in SeqRange(snapshot.data.queryInfo.errors)

\* C5 (as claimed): whatever the outcomes, every later query is issued, and in the
\* returned snapshot the slot of a failed query holds its empty fallback and the slot of
\* a succeeded query holds its filtered result.
C5_IndependentFallbacks ==
    snapshot.returned
        => /\ SubSeq(issued, 1, 3)
                = <<"Projects, Services, and Environments", "Latest Deployments", "Volume Usage">>
           /\ locals.terminusLogsEnvId # "" => Len(issued) = 4 /\ issued[4] = "Event Logs"
           /\ snapshot.hasData
           /\ snapshot.data.projects =
                 (IF "projects" \in locals.failed THEN Data(<<>>)
                  ELSE filterProjectsData(locals.projectsData, filters).value)
           /\ snapshot.data.deployments =
                 (IF "deployments" \in locals.failed THEN Edges(<<>>)
                  ELSE filterDeploymentsData(locals.deploymentsData, filters).value)
           /\ snapshot.data.volumes =
                 (IF "volumes" \in locals.failed THEN Data(<<>>)
                  ELSE filterVolumesData(locals.volumeData, filters).value)
           /\ snapshot.data.eventLogs =
                 (IF "eventLogs" \in locals.failed THEN EventLogs(<<>>)
                  ELSE locals.eventLogsData)

\* C6: a value returned by fetchDashboardData is either success = true with data and
\* without error, or success = false with error = {message, type} and without data.
C6_SuccessOrFailure ==
    snapshot.returned
        => \/ snapshot.success /\ snapshot.hasData /\ ~snapshot.hasError
           \/ /\ ~snapshot.success /\ snapshot.hasError /\ ~snapshot.hasData
              /\ snapshot.error.message # "" /\ snapshot.error.type # ""

\* C6 happens: a failure snapshot was returned after an exception inside
\* fetchDashboardData, one of its queries having failed before
C6_Witness ==
    /\ snapshot.returned /\ ~snapshot.success /\ snapshot.hasError
    /\ locals.failed # {}

(***************************************************************************)
(* Claims about the filter engine (SpecFilter).                            *)
(***************************************************************************)
TreeFns == {"filterData", "filterProjectsData", "filterVolumesData"}

\* the two places a workspace carries projects: directly, and under team
ProjectConnsOf(w) == <<w.projects, w.team.projects>>

Nodes(c) == {c.edges[i] : i \in 1..Len(c.edges)}

UniqueIds(c) == \A i, j \in 1..Len(c.edges) : c.edges[i].id = c.edges[j].id => i = j

\* C7: for each filter function and every input tree, a filter whose projectId,
\* serviceId and environmentId are all absent or empty returns a structure deep-equal
\* to the input tree.
C7_IdentityFilter ==
    (fout.fn # "none" /\ NoFilterGiven(fin.filters))
        => (~fout.thrown /\ fout.value = fin.data)

\* C7 happens: filterData is called with the empty filter on a tree holding a workspace
\* without team (on which any other filter throws), and returns it
C7_Witness ==
    /\ fout.fn = "filterData" /\ NoFilterGiven(fin.filters)
    /\ fin.data.hasWorkspaces
    /\ \E i \in 1..Len(fin.data.workspaces) : ~fin.data.workspaces[i].team.present
    /\ fout.value = fin.data

\* C8: for a non-empty projectId and a tree whose project ids are unique within each
\* project connection, every project edge of the filtered result has id = projectId and
\* each project connection of each workspace holds at most one project.
C8_FilterNarrowing ==
    (/\ fout.fn \in TreeFns /\ ~fout.thrown
     /\ fin.filters.projectId # ""
     /\ fin.data.hasWorkspaces
     /\ \A i \in 1..Len(fin.data.workspaces) : \A k \in 1..2 :
            UniqueIds(ProjectConnsOf(fin.data.workspaces[i])[k]))
        => \A i \in 1..Len(fout.value.workspaces) : \A k \in 1..2 :
              LET c == ProjectConnsOf(fout.value.workspaces[i])[k]
              IN  /\ \A p \in Nodes(c) : p.id = fin.filters.projectId
                  /\ Len(c.edges) <= 1

\* C8 happens: a workspace with two distinct projects is narrowed to the one asked for
C8_Witness ==
    /\ fout.fn = "filterProjectsData" /\ ~fout.thrown
    /\ fin.filters.projectId = "p1"
    /\ \E i \in 1..Len(fin.data.workspaces) :
          /\ Len(fin.data.workspaces[i].team.projects.edges) = 2
          /\ UniqueIds(fin.data.workspaces[i].team.projects)
          /\ Len(fout.value.workspaces[i].team.projects.edges) = 1

\* C9 (as claimed): with both serviceId and environmentId given, every deployment edge
\* of the result belongs to the service serviceId and has an environment whose name or
\* id is environmentId, and every such input edge inside a retained project is in the
\* result.
C9_EnvMatches(d) ==
    d.environment.present
    /\ (d.environment.name = fin.filters.environmentId \/ d.environment.id = fin.filters.environmentId)

C9_filterData ==
    LET f == fin.filters
        kept(w) == Nodes(w.team.projects)
    IN  /\ \A i \in 1..Len(fout.value.workspaces) :
              \A p \in kept(fout.value.workspaces[i]) : \A s \in Nodes(p.services) :
                 \A d \in Nodes(s.deployments) : s.id = f.serviceId /\ C9_EnvMatches(d)
        /\ \A i \in 1..Len(fin.data.workspaces) :
              \A p \in kept(fin.data.workspaces[i]) : \A s \in Nodes(p.services) :
                 \A d \in Nodes(s.deployments) :
                    ((f.projectId = "" \/ p.id = f.projectId) /\ s.id = f.serviceId /\ C9_EnvMatches(d))
                        => \E q \in kept(fout.value.workspaces[i]) : \E t \in Nodes(q.services) :
                              q.id = p.id /\ t.id = s.id /\ d \in Nodes(t.deployments)

C9_filterDeploymentsData ==
    LET f == fin.filters
    IN  /\ \A d \in Nodes(fout.value) : d.serviceId = f.serviceId /\ d.environmentId = f.environmentId
        /\ \A d \in Nodes(fin.data) :
              ((f.projectId = "" \/ d.projectId = f.projectId)
               /\ d.serviceId = f.serviceId /\ d.environmentId = f.environmentId)
                  => d \in Nodes(fout.value)

C9_ServiceEnvironmentComposition ==
    (~fout.thrown /\ fin.filters.serviceId # "" /\ fin.filters.environmentId # "")
        => /\ (fout.fn = "filterData" /\ fin.data.hasWorkspaces) => C9_filterData
           /\ fout.fn = "filterDeploymentsData" => C9_filterDeploymentsData

\* C10: the environment edges of a project of the result are those of the input project
\* that pass Keep, in order.  The result's project is matched to the input's by its id,
\* where that id is unique in the input connection.
EnvKeys(s) == [i \in 1..Len(s) |-> <<s[i].id, s[i].name>>]

C10_Environments(Keep(_)) ==
    (fout.fn \in TreeFns /\ ~fout.thrown /\ fin.data.hasWorkspaces)
        => \A w \in 1..Len(fin.data.workspaces) : \A k \in 1..2 :
              LET cin == ProjectConnsOf(fin.data.workspaces[w])[k]
                  cout == ProjectConnsOf(fout.value.workspaces[w])[k]
              IN  \A p \in Nodes(cin) : \A q \in Nodes(cout) :
                     (q.id = p.id /\ UniqueIds(cin) /\ HasEdges(p.environments))
                         => EnvKeys(q.environments.edges)
                              = EnvKeys(SelectSeq(p.environments.edges, Keep))

\* C10 (as claimed): an environment edge of a retained project is in the result iff
\* environmentId is absent or equals the environment's id (or, in filterData, its name).
C10_EnvironmentRetainedIffMatches ==
    C10_Environments(LAMBDA e :
        \/ fin.filters.environmentId = ""
        \/ e.id = fin.filters.environmentId
        \/ fout.fn = "filterData" /\ e.name = fin.filters.environmentId)

\* some volume instance of environment e satisfies the serviceId and environmentId filters
C10_HasMatchingInstance(e) ==
    /\ HasEdges(e.volumeInstances)
    /\ \E i \in Nodes(e.volumeInstances) :
          /\ fin.filters.serviceId \in {i.serviceId, i.service}
          /\ fin.filters.environmentId \in {"", i.environmentId, i.environment}

\* C10 (amended): in filterData an environment edge of a retained project is in the
\* result iff environmentId is absent or equals its id or name; in filterProjectsData
\* every environment edge of a retained project is in the result; in filterVolumesData
\* it is in the result iff environmentId is absent or equals its id, and serviceId is
\* absent or the environment carries no volumeInstances or one of its volume instances
\* satisfies the serviceId and environmentId filters.
C10_EnvironmentRetention ==
    C10_Environments(LAMBDA e :
        CASE fout.fn = "filterData" ->
                \/ fin.filters.environmentId = ""
                \/ e.id = fin.filters.environmentId
                \/ e.name = fin.filters.environmentId
          [] fout.fn = "filterProjectsData" -> TRUE
          [] OTHER ->
                /\ fin.filters.environmentId = "" \/ e.id = fin.filters.environmentId
                /\ \/ fin.filters.serviceId = ""
                   \/ ~e.volumeInstances.present
                   \/ C10_HasMatchingInstance(e))

\* C10 happens: filterVolumesData, filtering by service alone, returns a project with one
\* of its two environments, the other dropped for holding no volume instance of the service
C10_Witness ==
    /\ fout.fn = "filterVolumesData" /\ ~fout.thrown
    /\ fin.filters.serviceId # "" /\ fin.filters.environmentId = ""
    /\ \E w \in 1..Len(fin.data.workspaces) :
          LET cin == fin.data.workspaces[w].team.projects
              cout == fout.value.workspaces[w].team.projects
          IN  /\ Len(cin.edges) = 1 /\ Len(cout.edges) = 1
              /\ Len(cin.edges[1].environments.edges) = 2
              /\ Len(cout.edges[1].environments.edges) = 1

\* the volume instances listed under the volumes or environments of a project, in order,
\* those under an environment e restricted to the ones for which Keep(e, i) holds
InstancesUnder(c, Keep(_, _)) ==
    IF ~HasEdges(c) THEN <<>>
    ELSE Concat([j \in 1..Len(c.edges) |->
                    IF HasEdges(c.edges[j].volumeInstances)
                    THEN SelectSeq(c.edges[j].volumeInstances.edges, LAMBDA i : Keep(c.edges[j], i))
                    ELSE <<>>])

\* every volume instance listed under an environment of project p that names an
\* environment names that one: the upstream relation environment -> volumeInstances
C11_InstancesOfTheirEnvironment(p) ==
    HasEdges(p.environments)
        => \A e \in Nodes(p.environments) :
              HasEdges(e.volumeInstances)
                  => \A i \in Nodes(e.volumeInstances) :
                        i.environmentId \in {"", e.id} /\ i.environment \in {"", e.id}

\* filterVolumesData returned, and the volume instances of every project of the result
\* are those of the input project for which Keep holds, under its volumes and under its
\* environments
C11_Instances(Keep(_, _)) ==
    (fout.fn = "filterVolumesData" /\ fin.data.hasWorkspaces)
        => \A w \in 1..Len(fin.data.workspaces) : \A k \in 1..2 :
              LET cin == ProjectConnsOf(fin.data.workspaces[w])[k]
                  cout == ProjectConnsOf(fout.value.workspaces[w])[k]
              IN  \A p \in Nodes(cin) : \A q \in Nodes(cout) :
                     (q.id = p.id /\ UniqueIds(cin) /\ C11_InstancesOfTheirEnvironment(p))
                         => /\ InstancesUnder(q.volumes, LAMBDA v, i : TRUE)
                                 = InstancesUnder(p.volumes, LAMBDA v, i : Keep(v, i))
                            /\ InstancesUnder(q.environments, LAMBDA e, i : TRUE)
                                 = InstancesUnder(p.environments, LAMBDA e, i : Keep(e, i))

\* the instance satisfies the serviceId and the environmentId filter, by field or relation
C11_Matches(i) ==
    /\ fin.filters.serviceId \in {"", i.serviceId, i.service}
    /\ fin.filters.environmentId \in {"", i.environmentId, i.environment}

\* C11: in filterVolumesData a volume-instance edge of a retained project is in the
\* result iff serviceId is absent or equals the instance's serviceId or service.id, and
\* environmentId is absent or equals its environmentId or environment.id.
C11_InstanceRetainedIffMatches ==
    C11_Instances(LAMBDA n, i : C11_Matches(i))

\* C11 happens: filtering by service, a retained project keeps an instance that names its
\* service by the nested relation alone and loses another instance
C11_Witness ==
    /\ fout.fn = "filterVolumesData" /\ fin.filters.serviceId = "s1"
    /\ \E w \in 1..Len(fin.data.workspaces) :
          LET cin == fin.data.workspaces[w].team.projects
              cout == fout.value.workspaces[w].team.projects
          IN  /\ Len(cin.edges) = 1 /\ Len(cout.edges) = 1
              /\ C11_InstancesOfTheirEnvironment(cin.edges[1])
              /\ Len(InstancesUnder(cin.edges[1].environments, LAMBDA e, i : TRUE)) = 2
              /\ \E i \in SeqRange(InstancesUnder(cout.edges[1].environments, LAMBDA e, i : TRUE)) :
                    i.serviceId = "" /\ i.service = "s1"
              /\ Len(InstancesUnder(cout.edges[1].environments, LAMBDA e, i : TRUE)) = 1

\* the volume instances of input project p that match the filters
C12_Remaining(p) ==
    InstancesUnder(p.volumes, LAMBDA v, i : C11_Matches(i))
        \o InstancesUnder(p.environments, LAMBDA e, i : C11_Matches(i))

\* C12: in filterVolumesData a project that passes the projectId test is dropped iff a
\* serviceId or environmentId filter is active and no volume instance of the project
\* remains after instance filtering; under a projectId-only filter it is retained.
C12_ProjectDroppedIffNoInstances ==
    (fout.fn = "filterVolumesData" /\ fin.data.hasWorkspaces)
        => \A w \in 1..Len(fin.data.workspaces) : \A k \in 1..2 :
              LET cin == ProjectConnsOf(fin.data.workspaces[w])[k]
                  cout == ProjectConnsOf(fout.value.workspaces[w])[k]
              IN  \A p \in Nodes(cin) :
                     (/\ UniqueIds(cin) /\ C11_InstancesOfTheirEnvironment(p)
                      /\ fin.filters.projectId \in {"", p.id})
                         => ((\A q \in Nodes(cout) : q.id # p.id)
                                <=> /\ fin.filters.serviceId # "" \/ fin.filters.environmentId # ""
                                    /\ C12_Remaining(p) = <<>>)

\* C12 happens: a project holding volume instances passes the projectId test and is
\* dropped, none of its instances matching the service filter
C12_Witness ==
    /\ fout.fn = "filterVolumesData" /\ fin.filters.serviceId # ""
    /\ \E w \in 1..Len(fin.data.workspaces) :
          LET cin == fin.data.workspaces[w].team.projects
              cout == fout.value.workspaces[w].team.projects
          IN  /\ Len(cin.edges) = 1 /\ Len(cout.edges) = 0
              /\ fin.filters.projectId = cin.edges[1].id
              /\ C11_InstancesOfTheirEnvironment(cin.edges[1])
              /\ InstancesUnder(cin.edges[1].environments, LAMBDA e, i : TRUE) # <<>>

\* C13 (as claimed): under a non-empty filter, a filter function given a tree in which a
\* connection is absent or malformed (a workspace without team, a connection without
\* an edges array) does not throw.
C13_NeverThrows ==
    (fout.fn # "none" /\ ~NoFilterGiven(fin.filters)) => ~fout.thrown

GivenProjects ==
    IF gin.fn = "generateHTML" /\ gin.data.projects.hasWorkspaces
    THEN Concat(MapSeq(gin.data.projects.workspaces, LAMBDA w :
             IF w.team.present /\ HasEdges(w.team.projects) THEN w.team.projects.edges
             ELSE <<>>))
    ELSE <<>>

ServicesOf(p) == IF HasEdges(p.services) THEN p.services.edges ELSE <<>>

EnvironmentsOf(p) == IF HasEdges(p.environments) THEN p.environments.edges ELSE <<>>

\* the environments of p, in the project's order, the lookup has an entry for with service sv
C15_Deployed(p, sv) ==
    SelectSeq(EnvironmentsOf(p),
              LAMBDA e : Key(sv.id, e.id) \in DOMAIN gout.deploymentMap)

C15_RowsOf(p, sv) ==
    SelectSeq(gout.allServices,
              LAMBDA r : r.projectName = p.name /\ r.serviceName = sv.name)

\* C15: every service of every project has, in the flattened rows, one row for each
\* environment of its project (in the project's order) whose key serviceId-environmentId
\* is in the lookup, carrying that entry, and exactly one row without a deployment when
\* there is no such environment; so every service has a row
C15_RowsPerService ==
    gout.fn = "generateHTML" =>
        \A j \in 1..Len(GivenProjects) :
            LET p == GivenProjects[j] IN
            \A k \in 1..Len(ServicesOf(p)) :
                LET sv == ServicesOf(p)[k]
                    envs == C15_Deployed(p, sv)
                    rows == C15_RowsOf(p, sv)
                IN  IF envs = <<>>
                    THEN Len(rows) = 1 /\ ~rows[1].hasDeployment
                    ELSE /\ Len(rows) = Len(envs)
                         /\ \A n \in 1..Len(rows) :
                               /\ rows[n].hasDeployment
                               /\ rows[n].environmentName = envs[n].name
                               /\ rows[n].deployment
                                      = gout.deploymentMap[Key(sv.id, envs[n].id)]

\* a service with a row for each of two environments beside a service with the row that
\* has no deployment
C15_Witness ==
    /\ gout.fn = "generateHTML"
    /\ Len(gout.allServices) = 3
    /\ gout.allServices[1].hasDeployment /\ gout.allServices[2].hasDeployment
    /\ gout.allServices[1].environmentName # gout.allServices[2].environmentName
    /\ gout.allServices[1].serviceName = gout.allServices[2].serviceName
    /\ ~gout.allServices[3].hasDeployment

\* the deployments the lookup was built from, in the order met
GivenDeployments ==
    IF gin.fn = "generateHTML" /\ gin.data.deployments.shape = "me"
    THEN gin.data.deployments.entries ELSE <<>>

C16_Under(key) ==
    SelectSeq(GivenDeployments, LAMBDA d : Key(d.serviceId, d.environmentId) = key)

\* C16: when the deployments met hold two or more entries of one (serviceId,
\* environmentId) with parseable, different createdAt, the lookup holds under that key
\* one of those entries and none of them is later than it, in whatever order they were met
C16_LatestPerKey ==
    gout.fn = "generateHTML" =>
        \A n \in 1..Len(GivenDeployments) :
            LET key == Key(GivenDeployments[n].serviceId, GivenDeployments[n].environmentId)
                same == C16_Under(key)
            IN  (/\ \A j \in 1..Len(same) : same[j].createdAt # 0
                 /\ \E j, k \in 1..Len(same) : same[j].createdAt # same[k].createdAt)
                => /\ key \in DOMAIN gout.deploymentMap
                   /\ \E j \in 1..Len(same) : same[j] = gout.deploymentMap[key]
                   /\ \A j \in 1..Len(same) :
                         same[j].createdAt <= gout.deploymentMap[key].createdAt

\* the later of two deployments of one key was met first, an earlier one after it, and the
\* lookup holds the later one
C16_Witness ==
    /\ gout.fn = "generateHTML"
    /\ Len(GivenDeployments) >= 2
    /\ GivenDeployments[1].serviceId = GivenDeployments[2].serviceId
    /\ GivenDeployments[1].environmentId = GivenDeployments[2].environmentId
    /\ GivenDeployments[1].createdAt = 2
    /\ GivenDeployments[2].createdAt = 1
    /\ gout.deploymentMap[Key(GivenDeployments[1].serviceId,
                              GivenDeployments[1].environmentId)] = GivenDeployments[1]

\* the event-log entries of the snapshot the generator was given
GivenLogs ==
    IF gin.fn = "generateHTML" /\ gin.data.eventLogs.present
    THEN gin.data.eventLogs.environmentLogs ELSE <<>>

C17_Distinct(logs) ==
    \A j, k \in 1..Len(logs) : j # k => logs[j].timestamp # logs[k].timestamp

\* C17: event-log entries with parseable, pairwise distinct timestamps are emitted one
\* for one, each with the members timestamp, message and severity of its entry and no
\* other, in strictly descending order of timestamp
C17_NewestFirst ==
    (gout.fn = "generateHTML" /\ C17_Distinct(GivenLogs)) =>
        LET out == gout.extracted.eventLogs IN
        /\ Len(out) = Len(GivenLogs)
        /\ \A j \in 1..Len(out) :
              /\ DOMAIN out[j] = {"timestamp", "message", "severity"}
              /\ \E k \in 1..Len(GivenLogs) :
                    /\ out[j].timestamp = GivenLogs[k].timestamp
                    /\ out[j].message = GivenLogs[k].message
                    /\ out[j].severity = GivenLogs[k].severity
        /\ \A j \in 1..(Len(out) - 1) : out[j].timestamp > out[j + 1].timestamp

\* the entries arrived as [T1, T3, T2] and left as [T3, T2, T1]
C17_Witness ==
    /\ gout.fn = "generateHTML"
    /\ Len(GivenLogs) = 3
    /\ GivenLogs[1].timestamp = 1 /\ GivenLogs[2].timestamp = 3 /\ GivenLogs[3].timestamp = 2
    /\ Len(gout.extracted.eventLogs) = 3
    /\ gout.extracted.eventLogs[1].timestamp = 3
    /\ gout.extracted.eventLogs[2].timestamp = 2
    /\ gout.extracted.eventLogs[3].timestamp = 1

\* C18: extractEventAction returns to its caller, with no exception, for every message
\* an upstream log entry can carry and every configuration
C18_NeverPropagates ==
    gout.fn = "extractEventAction" => ~gout.thrown

\* /\[([^\]]+)\]/ finds a '[' and a later ']' with one or more characters, none of them
\* ']', between the two
C19_Matches(t) ==
    \E j, k \in 1..Len(t) :
        /\ j + 1 < k
        /\ t[j] = "[" /\ t[k] = "]"
        /\ \A n \in (j + 1)..(k - 1) : t[n] # "]"

\* C19: under displayAlgorithm 'regex', a message the configured regex does not match and
\* that is longer than fallback.maxLength comes back as its first fallback.maxLength
\* characters followed by '...'
C19_TruncationFallback ==
    (/\ gout.fn = "extractEventAction"
     /\ gin.config.displayAlgorithm = "regex"
     /\ gin.message.present
     /\ ~C19_Matches(gin.message.text)
     /\ Len(gin.message.text) > gin.config.maxLength)
    => /\ ~gout.thrown
       /\ gout.value = SubSeq(gin.message.text, 1, gin.config.maxLength) \o <<".", ".", ".">>

\* a message with brackets the regex does not match, longer than the shipped
\* fallback.maxLength, came back cut to it
C19_Witness ==
    /\ gout.fn = "extractEventAction"
    /\ gin.config.displayAlgorithm = "regex"
    /\ gin.config.maxLength = shippedMaxLength
    /\ gin.message.present
    /\ Len(gin.message.text) > shippedMaxLength
    /\ gin.message.text[1] = "[" /\ gin.message.text[2] = "]"
    /\ ~gout.thrown
    /\ Len(gout.value) = shippedMaxLength + 3

\* the entities escapeHtml writes
Entities ==
    {<<"&", "a", "m", "p", ";">>, <<"&", "l", "t", ";">>, <<"&", "g", "t", ";">>,
     <<"&", "q", "u", "o", "t", ";">>, <<"&", "#", "3", "9", ";">>}

\* t holds <, >, " or ', or an & that does not begin an entity
C20_RawMarkup(t) ==
    \E j \in 1..Len(t) :
        \/ t[j] \in {"<", ">", "\"", "'"}
        \/ /\ t[j] = "&"
           /\ \A e \in Entities :
                 ~(j + Len(e) - 1 <= Len(t) /\ SubSeq(t, j, j + Len(e) - 1) = e)

\* C20: no string the dashboard or the error document takes from the snapshot (workspace,
\* project, service and environment names, volume mount paths, event messages and
\* severities, error.message, error.type) reaches the document with a raw markup character
C20_AllEscaped ==
    gout.fn = "generateHTML" =>
        \A j \in 1..Len(gout.inserted) : ~C20_RawMarkup(gout.inserted[j].text)

\* what one character becomes
C21_Entity(c) ==
    CASE c = "&" -> <<"&", "a", "m", "p", ";">>
      [] c = "<" -> <<"&", "l", "t", ";">>
      [] c = ">" -> <<"&", "g", "t", ";">>
      [] c = "\"" -> <<"&", "q", "u", "o", "t", ";">>
      [] c = "'" -> <<"&", "#", "3", "9", ";">>
      [] OTHER -> <<c>>

\* C21: escapeHtml returns the text with each &, <, >, " and ' replaced by its entity and
\* every other character as it was and in order; the result holds no raw <, >, " or ' and
\* each & in it begins one of the five entities
C21_EscapeHtml ==
    gout.fn = "escapeHtml" =>
        /\ gout.value = Concat([j \in 1..Len(gin.text) |-> C21_Entity(gin.text[j])])
        /\ ~C20_RawMarkup(gout.value)

\* escapeHtml("<a>&\"'") = "&lt;a&gt;&amp;&quot;&#39;"
C21_Witness ==
    /\ gout.fn = "escapeHtml"
    /\ gin.text = <<"<", "a", ">", "&", "\"", "'">>
    /\ gout.value = <<"&", "l", "t", ";", "a", "&", "g", "t", ";", "&", "a", "m", "p", ";",
                      "&", "q", "u", "o", "t", ";", "&", "#", "3", "9", ";">>

C22_Limit(list) ==
    CASE list = "services" -> 12
      [] list = "volumes" -> 8
      [] list = "events" -> 8

\* the number of entries of a list the template was given
C22_Given(list) ==
    CASE list = "services" -> Len(gout.allServices)
      [] list = "volumes" -> Len(gout.extracted.volumes)
      [] list = "events" -> Len(gout.extracted.eventLogs)

\* C22: the dashboard shows at most 12 service rows, 8 volume rows and 8 event rows, and
\* for a list with more entries than its limit the document holds a "+N more" indicator
\* with N the number of entries left out
C22_BoundedWithIndicator ==
    (gout.fn = "generateHTML" /\ gin.data.success /\ ~gout.thrown) =>
        \A list \in {"services", "volumes", "events"} :
            /\ gout.boxes[list] <= C22_Limit(list)
            /\ (C22_Given(list) > C22_Limit(list) /\ gout.boxes[list] > 0)
               => \E j \in 1..Len(gout.more) :
                     gout.more[j] = [list |-> list,
                                     omitted |-> C22_Given(list) - C22_Limit(list)]

(***************************************************************************)
(* Claims about the request to the document, end to end (Spec).            *)
(***************************************************************************)
\* the sections of the dashboard that have nothing to show
C23_EmptySections ==
    (IF gout.allServices = <<>> THEN {"services"} ELSE {})
        \cup (IF gout.extracted.volumes = <<>> THEN {"volumes"} ELSE {})
        \cup (IF gout.extracted.eventLogs = <<>> THEN {"events"} ELSE {})

\* C23: an authenticated GET / for which fetchDashboardData returned a snapshot is answered
\* with an HTML document: the error document, or the dashboard with an inline placeholder
\* in each section that has nothing to show; an exception of the flattening or the
\* templating does not reach the client as anything else
C23_AlwaysADocument ==
    (handler = "/" /\ pc = "responded" /\ snapshot.returned) =>
        /\ res.status = 200
        /\ \/ res.body = "error-html"
           \/ res.body = "html" /\ C23_EmptySections \subseteq gout.placeholders

\* the projects of the snapshot's filtered projects result
C29_Projects ==
    IF snapshot.success /\ snapshot.data.projects.hasWorkspaces
    THEN Concat(MapSeq(snapshot.data.projects.workspaces, LAMBDA w :
             IF w.team.present /\ HasEdges(w.team.projects) THEN w.team.projects.edges
             ELSE <<>>))
    ELSE <<>>

\* the deployments of the snapshot's filtered deployments result
C29_Deployments ==
    IF snapshot.success /\ HasEdges(snapshot.data.deployments)
    THEN snapshot.data.deployments.edges ELSE <<>>

\* C29: in the dashboard built from the snapshot of fetchDashboardData, a deployment of
\* the deployments result for a service and an environment of a project of the projects
\* result is the deployment of the row of that service and environment
C29_DeploymentsReachRows ==
    (handler = "/" /\ pc = "responded" /\ res.body = "html") =>
        \A n \in 1..Len(C29_Deployments) : \A j \in 1..Len(C29_Projects) :
            LET d == C29_Deployments[n]
                p == C29_Projects[j]
            IN  \A k \in 1..Len(ServicesOf(p)) : \A m \in 1..Len(EnvironmentsOf(p)) :
                    (/\ p.id = d.projectId
                     /\ ServicesOf(p)[k].id = d.serviceId
                     /\ EnvironmentsOf(p)[m].id = d.environmentId)
                    => \E r \in 1..Len(gout.allServices) :
                          /\ gout.allServices[r].serviceName = ServicesOf(p)[k].name
                          /\ gout.allServices[r].environmentName = EnvironmentsOf(p)[m].name
                          /\ gout.allServices[r].hasDeployment

\* C30: the flattener's hasFilters of the snapshot of a fetchDashboardData call is true
\* exactly when projectId, serviceId or environmentId of the filters passed to the call is
\* non-empty
C30_HasFiltersIffFiltered ==
    (handler = "/" /\ pc = "responded" /\ res.body = "html") =>
        (gout.extracted.hasFilters <=> ~NoFilterGiven(filters))

(***************************************************************************)
(* Claims about makeGraphQLRequest (SpecClient).                           *)
(***************************************************************************)
\* C24: a makeGraphQLRequest call whose request failed or whose response ended has
\* settled once: rejected with a network error if the request failed, with a parse error
\* if the body is not JSON, with an upstream query error exactly if the parsed response
\* has a non-empty errors array, and resolved with the response's data otherwise
C24_Classified ==
    (call.fn = "makeGraphQLRequest" /\ call.event # "none") =>
        /\ call.settlements = 1
        /\ call.promise =
              IF call.event = "error" THEN rejected("network", <<>>)
              ELSE IF call.body.json = "invalid" THEN rejected("parse", <<>>)
              ELSE IF call.body.json = "object" /\ call.body.errors.present
                      /\ call.body.errors.entries # <<>>
                   THEN [call.promise EXCEPT !.state = "rejected", !.kind = "upstream",
                                             !.data = NoData]
              ELSE resolved(call.body.data)

(***************************************************************************)
(* Claims about the order of the upstream queries (Spec).                  *)
(***************************************************************************)
\* a logs-environment id reached fetchDashboardData: from one of the two headers or from
\* the process environment
C26_LogsEnvironmentSupplied ==
    req.logsEnvironmentId # "" \/ req.terminusLogsEnvId # "" \/ env.TERMINUS_LOGS_ENV_ID # ""

C26_Order ==
    <<"Projects, Services, and Environments", "Latest Deployments", "Volume Usage">>
        \o (IF C26_LogsEnvironmentSupplied THEN <<"Event Logs">> ELSE <<>>)

\* the number of queries of the call that have been issued and have not settled
C26_InFlight == IF pc \in {"projects", "deployments", "volumes", "eventLogs"} THEN 1 ELSE 0

\* the number of queries of the call that have settled
C26_Settled ==
    CASE pc = "projects" -> 0
      [] pc = "deployments" -> 1
      [] pc = "volumes" -> 2
      [] pc = "eventLogs" -> 3
      [] OTHER -> Len(issued)

\* C26: within a fetchDashboardData call the queries issued are, at every moment, the
\* first ones of projects, deployments, volumes, event logs (the last only when a
\* logs-environment id was supplied); a query is issued when all before it have settled,
\* so at most one is in flight and none is issued twice; and when the call has returned
\* all of them have been issued
C26_OneAfterAnother ==
    handler \in {"/", "/api/data"} =>
        /\ Len(issued) <= Len(C26_Order)
        /\ issued = SubSeq(C26_Order, 1, Len(issued))
        /\ Len(issued) = C26_Settled + C26_InFlight
        /\ C26_InFlight <= 1
        /\ snapshot.returned => issued = C26_Order

\* a call with a logs-environment id from a header alone has returned after its four
\* queries
C26_Witness ==
    /\ handler = "/" /\ snapshot.returned
    /\ req.logsEnvironmentId = "e1" /\ env.TERMINUS_LOGS_ENV_ID = ""
    /\ Len(issued) = 4 /\ issued[4] = "Event Logs"

(***************************************************************************)
(* Claims about the display strategies (SpecGenerator).                    *)
(***************************************************************************)
\* C27: under a displayAlgorithm that is no strategy name, extractEventAction returns for
\* every message what the same call returns under 'regex'
C27_UnknownIsRegex ==
    (gout.fn = "extractEventAction" /\ gin.config.displayAlgorithm = "unknown") =>
        LET regex == extractEventAction(gin.message,
                                        [gin.config EXCEPT !.displayAlgorithm = "regex"])
        IN  gout.thrown = regex.thrown /\ (~gout.thrown => gout.value = regex.value)

(***************************************************************************)
(* Claims about overlapping debug requests (SpecDebug).                    *)
(***************************************************************************)
\* the lines the diagnostic run of request i wrote, in order
C25_OwnLines(i) ==
    [k \in 1..(proc.requests[i].emitted - 1) |-> Line(i, k + 1)]

\* C25: the logs a debug request responds with are the lines its own diagnostic run
\* wrote, and no line of another request, however the requests overlap
C25_OwnLinesOnly ==
    \A i \in RequestIds :
        proc.requests[i].pc = "done" => proc.requests[i].response = C25_OwnLines(i)

\* C28: when every debug request that arrived has completed, console.log and
\* console.error are the functions installed before the first one, and no completed
\* request's logs array has grown since its response
C28_ConsoleRestored ==
    (\A i \in RequestIds : proc.requests[i].pc # "running") =>
        /\ proc.console = 0
        /\ \A i \in RequestIds :
              proc.requests[i].pc = "done" => proc.requests[i].logs = proc.requests[i].response

====
